---- MODULE Spec2Model ----
(***************************************************************************)
(* Model of the sheet-music scanner (src/main.py): the scan pipeline of    *)
(* AccurateMusicScannerAPI.  Scores are on the 0..10 scale of the scoring  *)
(* prompt and are kept as integers; a JSON value that is not a number      *)
(* (a string such as "n/a") is the value NonNum.  A video identifier is a  *)
(* tuple of characters.  A Python call that may raise is an operator that  *)
(* returns a record with an `ok` flag (or names the path it took).         *)
(***************************************************************************)
EXTENDS Integers, Sequences, FiniteSets, TLC

VARIABLES
    pc,                         \* position of the scan in scan_music_from_base64
    current_youtube_key_index,  \* the rotation cursor (self.current_youtube_key_index)
    validated_instrument,       \* scan: validated_instrument
    extracted_text,             \* scan: extracted_text, once the OCR call returned
    identification,             \* what the reasoning service answered in this scan
    piece_id,                   \* scan: piece_id
    search_terms,               \* scan: search_terms, the (term, strategy) pairs
    term_index,                 \* search_youtube_simple: position in search_terms
    strategy_videos,            \* search_youtube_simple: videos of the last strategy
    all_videos,                 \* search_youtube_simple: all_videos, in insertion order
    attempt,                    \* search_youtube_single: attempt
    api_key,                    \* search_youtube_single: api_key
    valid_video_ids,            \* search_youtube_single: valid_video_ids
    batch_start,                \* get_video_details: i
    details_videos,             \* get_video_details: all_videos
    single_index,               \* get_video_details: position in batch_ids (status 400)
    videos,                     \* scan: videos, the candidates handed to rank_by_accuracy
    scoring,                    \* what the scoring service answered in this scan
    ranked_videos,              \* scan: ranked_videos
    rank_path,                  \* "none", "scored" (line 765) or "fallback" (line 770)
    result,                     \* the envelope the scan returned
    calls,                      \* the services this scan has called
    returned,                   \* what each finished strategy of this scan returned
    key_log,                    \* the last calls of get_next_youtube_api_key
    last_search,                \* the search response received in the step just taken
    last_details,               \* the metadata response received in the step just taken
    threads,                    \* request threads inside get_next_youtube_api_key
    completed,                  \* calls of get_next_youtube_api_key the threads completed
    duration_state,             \* a duration text, parsed (line 579) and formatted (line 580)
    instrument_state,           \* an instrument name, and what validate_instrument made of it
    extraction_state            \* a response text, and what lines 325-326 made of it

scanVars == <<validated_instrument, extracted_text, identification, piece_id, search_terms>>

searchVars == <<term_index, strategy_videos, all_videos, returned>>

attemptVars == <<attempt, api_key, valid_video_ids>>

detailsVars == <<batch_start, details_videos, single_index>>

rankVars == <<videos, scoring, ranked_videos, rank_path>>

rotorVars == <<current_youtube_key_index, key_log>>

threadVars == <<threads, completed>>

\* what a step of a sequential scan leaves alone
asideVars == <<threadVars, duration_state, instrument_state, extraction_state>>

vars == <<pc, scanVars, searchVars, attemptVars, detailsVars, rankVars, rotorVars,
          result, calls, last_search, last_details, asideVars>>

----------------------------------------------------------------------------
(* Bounds of the model *)

\* longest candidate list of a ranking scenario
MaxVideos == 6
\* longest candidate list ranked against an arbitrary scoring response
SmallN == 2
\* most score entries in an arbitrary scoring response
MaxEntries == 2
\* number of credentials in YOUTUBE_API_KEYS
PoolSize == 2

\* the strategies of a scan whose search may find more than a batch of videos
MaxLongStrategies == 1

\* the longest batch the metadata service may answer with status 400
MaxSingleBatch == 2

\* request threads that may be inside get_next_youtube_api_key at once
MaxThreads == 2

\* calls of get_next_youtube_api_key the threads make in all
MaxRotorCalls == 6

\* longest duration text given to parse_youtube_duration
MaxIsoLen == 4

\* the longest instrument name tried
MaxNameLen == 5

\* longest response text of an object extraction, in pieces
MaxContentLen == 4

\* longest duration formatted, in seconds
MaxSeconds == 7325

----------------------------------------------------------------------------
(* Program constants *)

\* len(video_id) != 11
VideoIdLen == 11
\* overall_accuracy_score >= 6.0
HighAccuracy == 6
\* scene_match_score >= 8.0
SceneMatch == 8
\* high_accuracy_videos[:5], ranked_videos[:5]
TopN == 5
\* ranked_videos[:3], the matches printed by rank_by_accuracy
TopPrinted == 3
\* len(extracted_text.strip()) < 5
MinTextLen == 5
\* batch_size = 5
BatchSize == 5

\* a score value of the response that is not a number
NonNum == -1

ScoreFields == <<"title_match_score", "composer_match_score", "scene_match_score",
                 "duration_match_score", "overall_accuracy_score">>

ScoreFieldSet == {ScoreFields[k] : k \in 1..Len(ScoreFields)}

Min(a, b) == IF a < b THEN a ELSE b

\* s[:k]
Take(s, k) == SubSeq(s, 1, Min(k, Len(s)))

----------------------------------------------------------------------------
(* Text: a Python str is a tuple of characters *)

Whitespace == {" ", "\t", "\n"}

UpperCase == <<"A", "B", "C", "D", "E", "F", "G", "H", "I", "J", "K", "L", "M", "N", "O", "P", "Q", "R", "S", "T", "U", "V", "W", "X", "Y", "Z">>

LowerCase == <<"a", "b", "c", "d", "e", "f", "g", "h", "i", "j", "k", "l", "m", "n", "o", "p", "q", "r", "s", "t", "u", "v", "w", "x", "y", "z">>

LowerChar(c) ==
    IF \E k \in 1..Len(UpperCase) : UpperCase[k] = c
    THEN LowerCase[CHOOSE k \in 1..Len(UpperCase) : UpperCase[k] = c]
    ELSE c

\* s.lower()
Lower(s) == [k \in 1..Len(s) |-> LowerChar(s[k])]

\* s.strip()
Strip(s) ==
    IF \A k \in 1..Len(s) : s[k] \in Whitespace
    THEN <<>>
    ELSE LET first == CHOOSE i \in 1..Len(s) :
                          s[i] \notin Whitespace /\ \A j \in 1..(i - 1) : s[j] \in Whitespace
             last  == CHOOSE i \in 1..Len(s) :
                          s[i] \notin Whitespace /\ \A j \in (i + 1)..Len(s) : s[j] \in Whitespace
         IN  SubSeq(s, first, last)

\* a in b, for two str
IsSubstring(a, b) ==
    \E i \in 0..(Len(b) - Len(a)) : SubSeq(b, i + 1, i + Len(a)) = a

\* f"{a} {b}"
Spaced(a, b) == a \o <<" ">> \o b

TextLow == <<"l", "o", "w">>

TextUnknown == <<"u", "n", "k", "n", "o", "w", "n">>

TextClarinet == <<"c", "l", "a", "r", "i", "n", "e", "t">>

\* SUPPORTED_INSTRUMENTS
SUPPORTED_INSTRUMENTS ==
    <<<<"a", "l", "t", "o", " ", "s", "a", "x", "o", "p", "h", "o", "n", "e">>,
      <<"b", "a", "r", "i", "t", "o", "n", "e", " ", "s", "a", "x", "o", "p", "h", "o", "n", "e">>,
      <<"t", "e", "n", "o", "r", " ", "s", "a", "x", "o", "p", "h", "o", "n", "e">>,
      <<"s", "o", "p", "r", "a", "n", "o", " ", "s", "a", "x", "o", "p", "h", "o", "n", "e">>,
      <<"b", "a", "s", "s", " ", "c", "l", "a", "r", "i", "n", "e", "t">>,
      <<"c", "l", "a", "r", "i", "n", "e", "t">>,
      <<"b", "a", "s", "s", "o", "o", "n">>,
      <<"c", "o", "n", "t", "r", "a", "b", "a", "s", "s", "o", "o", "n">>,
      <<"c", "e", "l", "l", "o">>,
      <<"d", "o", "u", "b", "l", "e", " ", "b", "a", "s", "s">>,
      <<"v", "i", "o", "l", "a">>,
      <<"v", "i", "o", "l", "i", "n">>,
      <<"e", "u", "p", "h", "o", "n", "i", "u", "m">>,
      <<"t", "u", "b", "a">>,
      <<"t", "r", "o", "m", "b", "o", "n", "e">>,
      <<"t", "r", "u", "m", "p", "e", "t">>,
      <<"f", "r", "e", "n", "c", "h", " ", "h", "o", "r", "n">>,
      <<"f", "l", "u", "t", "e">>,
      <<"p", "i", "c", "c", "o", "l", "o">>,
      <<"o", "b", "o", "e">>,
      <<"e", "n", "g", "l", "i", "s", "h", " ", "h", "o", "r", "n">>,
      <<"p", "i", "a", "n", "o">>,
      <<"h", "a", "r", "p">>,
      <<"p", "e", "r", "c", "u", "s", "s", "i", "o", "n">>,
      <<"t", "i", "m", "p", "a", "n", "i">>,
      <<"g", "u", "i", "t", "a", "r">>,
      <<"e", "l", "e", "c", "t", "r", "i", "c", " ", "g", "u", "i", "t", "a", "r">>,
      <<"b", "a", "s", "s", " ", "g", "u", "i", "t", "a", "r">>>>

\* the variant without the loop of lines 100-102: no partial match is tried
validate_instrument_exact(instrument) ==
    IF instrument = <<>> THEN TextClarinet ELSE Strip(Lower(instrument))

\* validate_instrument(instrument); a missing instrument is the empty text
validate_instrument(instrument) ==
    IF instrument = <<>>
    THEN TextClarinet
    ELSE LET instrument_lower == Strip(Lower(instrument))
         IN  IF \E k \in 1..Len(SUPPORTED_INSTRUMENTS) :
                    SUPPORTED_INSTRUMENTS[k] = instrument_lower
             THEN instrument_lower
             ELSE IF \E k \in 1..Len(SUPPORTED_INSTRUMENTS) :
                         \/ IsSubstring(instrument_lower, SUPPORTED_INSTRUMENTS[k])
                         \/ IsSubstring(SUPPORTED_INSTRUMENTS[k], instrument_lower)
                  THEN SUPPORTED_INSTRUMENTS[
                           CHOOSE k \in 1..Len(SUPPORTED_INSTRUMENTS) :
                               /\ \/ IsSubstring(instrument_lower, SUPPORTED_INSTRUMENTS[k])
                                  \/ IsSubstring(SUPPORTED_INSTRUMENTS[k], instrument_lower)
                               /\ \A j \in 1..(k - 1) :
                                      /\ ~IsSubstring(instrument_lower, SUPPORTED_INSTRUMENTS[j])
                                      /\ ~IsSubstring(SUPPORTED_INSTRUMENTS[j], instrument_lower)]
                  ELSE instrument_lower

----------------------------------------------------------------------------
(* VideoResult and the identifiers of a scenario *)

IdChars == <<"a", "b", "c", "d", "e", "f", "g", "h", "i", "j">>

\* the i-th well-formed identifier: ten "a" and one distinguishing character
VideoIdOf(i) == [k \in 1..VideoIdLen |-> IF k < VideoIdLen THEN "a" ELSE IdChars[i]]

\* a well-formed identifier that no candidate carries
UnknownId == [k \in 1..VideoIdLen |-> "z"]

\* VideoResult(...) as parse_video_item builds it: the five scores are 0.0
VideoResult(id, views, strategy) ==
    [video_id |-> id, views |-> views, search_strategy |-> strategy,
     title_match_score |-> 0, composer_match_score |-> 0, scene_match_score |-> 0,
     duration_match_score |-> 0, overall_accuracy_score |-> 0]

PieceIdentification(title, composer, scene, confidence, reasoning) ==
    [title |-> title, composer |-> composer, scene_movement |-> scene,
     confidence |-> confidence, reasoning |-> reasoning]

NoPiece == PieceIdentification(<<>>, <<>>, <<>>, <<>>, "")

----------------------------------------------------------------------------
(* The scoring response: its text as tokens, and the JSON array in it *)

\* one object of the scored array: the keys it has, and their values
ScoreEntry(has, id, title, composer, scene, duration, overall) ==
    [has |-> has, video_id |-> id,
     title_match_score |-> title, composer_match_score |-> composer,
     scene_match_score |-> scene, duration_match_score |-> duration,
     overall_accuracy_score |-> overall]

NoEntry == ScoreEntry({}, <<>>, 0, 0, 0, 0, 0)

\* a piece of the response text: "[", "]", free text, a fence, or a JSON object
Tok(t) == [t |-> t, e |-> NoEntry]

Obj(e) == [t |-> "obj", e |-> e]

Objs(es) == [k \in 1..Len(es) |-> Obj(es[k])]

\* content.find: the first index whose token is of a kind in ts, 0 when there is none
FindFirst(content, ts) ==
    IF \E i \in 1..Len(content) : content[i].t \in ts
    THEN CHOOSE i \in 1..Len(content) :
             /\ content[i].t \in ts
             /\ \A j \in 1..(i - 1) : content[j].t \notin ts
    ELSE 0

\* content.rfind: the last index whose token is of a kind in ts, 0 when there is none
FindLast(content, ts) ==
    IF \E i \in 1..Len(content) : content[i].t \in ts
    THEN CHOOSE i \in 1..Len(content) :
             /\ content[i].t \in ts
             /\ \A j \in (i + 1)..Len(content) : content[j].t \notin ts
    ELSE 0

\* the text after position i, up to the next fence of either kind
FencedBlock(content, i) ==
    LET rest == SubSeq(content, i + 1, Len(content))
        stop == FindFirst(rest, {"fence", "fence_json"})
    IN  IF stop = 0 THEN rest ELSE SubSeq(rest, 1, stop - 1)

\* content.split("```json")[1].split("```")[0], else content.split("```")[1]
StripFence(content) ==
    IF FindFirst(content, {"fence_json"}) # 0
    THEN FencedBlock(content, FindFirst(content, {"fence_json"}))
    ELSE IF FindFirst(content, {"fence"}) # 0
         THEN FencedBlock(content, FindFirst(content, {"fence"}))
         ELSE content

\* extract_json_array_from_content: the span from the first "[" to the last "]"
extract_json_array_from_content(content) ==
    LET c     == StripFence(content)
        start == FindFirst(c, {"lb"})
        end   == FindLast(c, {"rb"})
    IN  IF start # 0 /\ end # 0 /\ end > start
        THEN [ok |-> TRUE, val |-> SubSeq(c, start, end)]
        ELSE [ok |-> FALSE, val |-> <<>>]

\* json.loads of the span: an array of objects; anything else between the
\* brackets is a decode error
json_loads_array(span) ==
    LET inner == SubSeq(span, 2, Len(span) - 1)
    IN  IF \A k \in 1..Len(inner) : inner[k].t = "obj"
        THEN [ok |-> TRUE, val |-> [k \in 1..Len(inner) |-> inner[k].e]]
        ELSE [ok |-> FALSE, val |-> <<>>]

\* the scoring service: the call raises (transport, HTTP status, no choices),
\* or it returns a text
ScoringRaises == [kind |-> "raise", content |-> <<>>]

ScoringContent(content) == [kind |-> "content", content |-> content]

NoScoring == [kind |-> "none", content |-> <<>>]

----------------------------------------------------------------------------
(* rank_by_accuracy *)

\* video_dict = {video.video_id: video for video in videos}: the index of the
\* video an identifier maps to (the last one carrying it), 0 when absent
VideoDictIndex(vs, id) ==
    IF \E i \in 1..Len(vs) : vs[i].video_id = id
    THEN CHOOSE i \in 1..Len(vs) :
             /\ vs[i].video_id = id
             /\ \A j \in (i + 1)..Len(vs) : vs[j].video_id # id
    ELSE 0

\* how many of the five score keys are read before a KeyError: the assignments
\* of lines 749-753 run in order and stop at the first key the entry lacks
KeysRead(e) ==
    IF \A k \in 1..Len(ScoreFields) : ScoreFields[k] \in e.has
    THEN Len(ScoreFields)
    ELSE (CHOOSE k \in 1..Len(ScoreFields) :
              /\ ScoreFields[k] \notin e.has
              /\ \A j \in 1..(k - 1) : ScoreFields[j] \in e.has) - 1

FieldPos(f) == CHOOSE k \in 1..Len(ScoreFields) : ScoreFields[k] = f

\* the variant of the assignments that leaves the video as it was
KeepScores(v, e) == v

\* the video after the assignments of one entry that were reached
AssignScores(v, e) ==
    [f \in DOMAIN v |->
        IF f \in ScoreFieldSet /\ FieldPos(f) <= KeysRead(e) THEN e[f] ELSE v[f]]

\* one turn of the loop of line 745: the videos after it, and whether it raised
ApplyEntry(vs, e) ==
    IF "video_id" \notin e.has
    THEN [vs |-> vs, raised |-> TRUE]
    ELSE LET i == VideoDictIndex(vs, e.video_id)
         IN  IF i = 0
             THEN [vs |-> vs, raised |-> FALSE]
             ELSE [vs |-> [vs EXCEPT ![i] = AssignScores(vs[i], e)],
                   raised |-> KeysRead(e) < Len(ScoreFields)]

RECURSIVE ApplyScores(_, _)
\* the loop of lines 745-753: it mutates the videos in place and stops at the
\* first entry that raises
ApplyScores(vs, entries) ==
    IF entries = <<>>
    THEN [vs |-> vs, raised |-> FALSE]
    ELSE LET r == ApplyEntry(vs, Head(entries))
         IN  IF r.raised THEN r ELSE ApplyScores(r.vs, Tail(entries))

\* (overall_accuracy_score, scene_match_score) < of two videos raises TypeError:
\* the first components that differ are a number and a non-number
KeyCompareRaises(a, b) ==
    \/ a.overall_accuracy_score # b.overall_accuracy_score
       /\ (a.overall_accuracy_score = NonNum) # (b.overall_accuracy_score = NonNum)
    \/ a.overall_accuracy_score = b.overall_accuracy_score
       /\ a.scene_match_score # b.scene_match_score
       /\ (a.scene_match_score = NonNum) # (b.scene_match_score = NonNum)

\* sorted(videos, key=(overall, scene), reverse=True) raises: the sort compares
\* every two keys that end up next to each other
AccuracySortRaises(vs) ==
    \E i, j \in 1..Len(vs) : i # j /\ KeyCompareRaises(vs[i], vs[j])

\* the key (overall_accuracy_score, scene_match_score) of a is above that of b
AccuracyKeyAbove(a, b) ==
    \/ a.overall_accuracy_score > b.overall_accuracy_score
    \/ a.overall_accuracy_score = b.overall_accuracy_score
       /\ a.scene_match_score > b.scene_match_score

ViewsAbove(a, b) == a.views > b.views

\* s without its i-th element
RemoveAt(s, i) == SubSeq(s, 1, i - 1) \o SubSeq(s, i + 1, Len(s))

\* the first video of vs that no other video is above under the accuracy key
FirstTopByAccuracy(vs) ==
    CHOOSE i \in 1..Len(vs) :
        /\ \A j \in 1..Len(vs) : ~AccuracyKeyAbove(vs[j], vs[i])
        /\ \A j \in 1..(i - 1) : AccuracyKeyAbove(vs[i], vs[j])

FirstTopByViews(vs) ==
    CHOOSE i \in 1..Len(vs) :
        /\ \A j \in 1..Len(vs) : ~ViewsAbove(vs[j], vs[i])
        /\ \A j \in 1..(i - 1) : ViewsAbove(vs[i], vs[j])

\* the first video of vs that none has a higher overall score than
FirstTopByOverall(vs) ==
    CHOOSE i \in 1..Len(vs) :
        /\ \A j \in 1..Len(vs) : vs[j].overall_accuracy_score <= vs[i].overall_accuracy_score
        /\ \A j \in 1..(i - 1) : vs[j].overall_accuracy_score < vs[i].overall_accuracy_score

RECURSIVE SortByOverall(_)
\* the variant of the sort whose key is the overall score alone
SortByOverall(vs) ==
    IF vs = <<>> THEN <<>>
    ELSE <<vs[FirstTopByOverall(vs)]>> \o SortByOverall(RemoveAt(vs, FirstTopByOverall(vs)))

RECURSIVE SortByAccuracy(_)
\* sorted(videos, key=lambda x: (x.overall_accuracy_score, x.scene_match_score),
\* reverse=True): descending and stable
SortByAccuracy(vs) ==
    IF vs = <<>> THEN <<>>
    ELSE LET i == FirstTopByAccuracy(vs)
         IN  <<vs[i]>> \o SortByAccuracy(RemoveAt(vs, i))

RECURSIVE SortByViews(_)
\* sorted(videos, key=lambda x: x.views, reverse=True): descending and stable
SortByViews(vs) ==
    IF vs = <<>> THEN <<>>
    ELSE LET i == FirstTopByViews(vs)
         IN  <<vs[i]>> \o SortByViews(RemoveAt(vs, i))

\* the f-strings of lines 761-763 format overall, title, composer and scene of
\* the first three ranked videos with :.1f, which raises on a non-number
TopPrintRaises(ranked) ==
    \E i \in 1..Min(TopPrinted, Len(ranked)) :
        \/ ranked[i].overall_accuracy_score = NonNum
        \/ ranked[i].title_match_score = NonNum
        \/ ranked[i].composer_match_score = NonNum
        \/ ranked[i].scene_match_score = NonNum

\* the try block of lines 630-765 up to the parsed scores
ParsedScores(resp) ==
    IF resp.kind # "content"
    THEN [ok |-> FALSE, val |-> <<>>]
    ELSE LET span == extract_json_array_from_content(resp.content)
         IN  IF span.ok THEN json_loads_array(span.val) ELSE span

\* the variant of the fallback that returns the candidates in the order given
FallbackUnsorted(vs) == [videos |-> vs, path |-> "fallback", mutated |-> vs]

\* the except clause of lines 767-770, on the videos as the try block left them
FallbackRanking(vs) ==
    [videos |-> SortByViews(vs), path |-> "fallback", mutated |-> vs]

\* rank_by_accuracy(videos, piece_id, instrument) with the scoring service
\* answering resp: the list returned, the return statement that returned it, and
\* the caller's list after the in-place assignments.  RankParsed, RankApplied
\* and RankSorted are the try block from line 742, from line 756 and from
\* line 758 on.
RankSorted(vs, sorted) ==
    IF TopPrintRaises(sorted)
    THEN FallbackRanking(vs)
    ELSE [videos |-> sorted, path |-> "scored", mutated |-> vs]

RankApplied(applied) ==
    IF applied.raised \/ AccuracySortRaises(applied.vs)
    THEN FallbackRanking(applied.vs)
    ELSE RankSorted(applied.vs, SortByAccuracy(applied.vs))

RankParsed(vs, parsed) ==
    IF ~parsed.ok
    THEN FallbackRanking(vs)
    ELSE RankApplied(ApplyScores(vs, parsed.val))

rank_by_accuracy(vs, resp) ==
    IF vs = <<>>
    THEN [videos |-> <<>>, path |-> "empty", mutated |-> vs]
    ELSE RankParsed(vs, ParsedScores(resp))

----------------------------------------------------------------------------
(* scan_music_from_base64: the envelopes and the selection *)

\* create_error_response(error_message)
create_error_response(error_message) ==
    [piece_identification |->
        [title |-> <<>>, composer |-> <<>>, scene_movement |-> <<>>,
         confidence |-> TextLow, reasoning |-> error_message],
     videos |-> <<>>]

NoResult == [piece_identification |-> NoPiece, videos |-> <<>>]

\* f"Scan failed: {str(e)}" for the exceptions the pipeline raises
ScanFailed(e) ==
    CASE e = "TypeError"  -> "Scan failed: '>=' not supported between instances of 'str' and 'float'"
      [] e = "OCR"        -> "Scan failed: No text found in image"
      [] e = "Transport"  -> "Scan failed: request failed"
      [] e = "Parse"      -> "Scan failed: No JSON object found"
      [] e = "Composer"   -> "Scan failed: Please show clearer composer"
      [] OTHER            -> "Scan failed"

NoReadableText == "No readable text found in image"

NoVideosFound == "No videos found on YouTube - try checking your internet connection"

\* the variant of the dict whose overall score is the mean of the four others
SerializeRecomputed(v) ==
    [id |-> v.video_id, views |-> v.views, search_strategy |-> v.search_strategy,
     title_match_score |-> v.title_match_score,
     composer_match_score |-> v.composer_match_score,
     scene_match_score |-> v.scene_match_score,
     duration_match_score |-> v.duration_match_score,
     overall_accuracy_score |->
         (v.title_match_score + v.composer_match_score + v.scene_match_score
          + v.duration_match_score) \div 4]

\* the dict built for one video at lines 170-185
SerializeVideo(v) ==
    [id |-> v.video_id, views |-> v.views, search_strategy |-> v.search_strategy,
     title_match_score |-> v.title_match_score,
     composer_match_score |-> v.composer_match_score,
     scene_match_score |-> v.scene_match_score,
     duration_match_score |-> v.duration_match_score,
     overall_accuracy_score |-> v.overall_accuracy_score]

\* [v for v in ranked_videos if v.overall_accuracy_score >= 6.0]
RECURSIVE HighAccuracyVideos(_)
HighAccuracyVideos(ranked) ==
    IF ranked = <<>> THEN <<>>
    ELSE IF Head(ranked).overall_accuracy_score >= HighAccuracy
         THEN <<Head(ranked)>> \o HighAccuracyVideos(Tail(ranked))
         ELSE HighAccuracyVideos(Tail(ranked))

\* the variant of the selection that returns every ranked video
SelectEveryVideo(ranked) == ranked

\* lines 154-159
SelectVideos(ranked) ==
    IF Len(HighAccuracyVideos(ranked)) >= TopN
    THEN Take(HighAccuracyVideos(ranked), TopN)
    ELSE Take(ranked, TopN)

\* lines 151-198 of scan: the comparison of line 152 raises on a non-number
\* overall of any ranked video, the one of line 190 on a non-number scene score
\* of a selected video; the except clause of line 195 turns both into the
\* error envelope
SelectAndRespond(ranked, piece) ==
    IF \E i \in 1..Len(ranked) : ranked[i].overall_accuracy_score = NonNum
    THEN create_error_response(ScanFailed("TypeError"))
    ELSE LET selected == SelectVideos(ranked)
         IN  IF \E i \in 1..Len(selected) : selected[i].scene_match_score = NonNum
             THEN create_error_response(ScanFailed("TypeError"))
             ELSE [piece_identification |-> piece,
                   videos |-> [i \in 1..Len(selected) |-> SerializeVideo(selected[i])]]

----------------------------------------------------------------------------
(* The credential rotator *)

KeyNames == <<"key1", "key2", "key3", "key4">>

\* YOUTUBE_API_KEYS: the pool of credentials, none of them empty
YOUTUBE_API_KEYS == SubSeq(KeyNames, 1, PoolSize)

\* line 412: key = YOUTUBE_API_KEYS[self.current_youtube_key_index]
KeyAt(index) == YOUTUBE_API_KEYS[index + 1]

\* the variant of line 413 that leaves the cursor where it is
KeepKeyIndex(index) == index

\* the variant of line 413 that moves the cursor by two
AdvanceKeyIndexTwice(index) == (index + 2) % Len(YOUTUBE_API_KEYS)

\* line 413: (self.current_youtube_key_index + 1) % len(YOUTUBE_API_KEYS)
AdvanceKeyIndex(index) == (index + 1) % Len(YOUTUBE_API_KEYS)

\* the last k elements of s
LastK(s, k) == IF Len(s) <= k THEN s ELSE SubSeq(s, Len(s) - k + 1, Len(s))

\* get_next_youtube_api_key(): the cursor advances; the key it returns is
\* KeyAt(current_youtube_key_index).  key_log keeps the last PoolSize calls.
get_next_youtube_api_key ==
    /\ current_youtube_key_index' = AdvanceKeyIndex(current_youtube_key_index)
    /\ key_log' = LastK(Append(key_log,
                               [at   |-> current_youtube_key_index,
                                key  |-> KeyAt(current_youtube_key_index),
                                next |-> current_youtube_key_index']),
                        PoolSize)

----------------------------------------------------------------------------
(* identify_piece_simple and create_simple_search_terms *)

IdentKeys == {"title", "composer", "scene_movement", "confidence", "reasoning"}

\* the JSON object of the identification response: the keys it has, their values
IdentData(has, title, composer, scene, confidence, reasoning) ==
    [has |-> has, title |-> title, composer |-> composer, scene_movement |-> scene,
     confidence |-> confidence, reasoning |-> reasoning]

NoIdentData == IdentData({}, <<>>, <<>>, <<>>, <<>>, "")

\* the reasoning service: the request fails, the text holds no JSON object, or
\* it holds the object data
IdentRaises == [kind |-> "raise", data |-> NoIdentData]

IdentNoJson == [kind |-> "no_json", data |-> NoIdentData]

IdentObject(data) == [kind |-> "data", data |-> data]

NoIdentification == [kind |-> "none", data |-> NoIdentData]

\* identification_data.get('composer', '')
ComposerOf(data) == IF "composer" \in data.has THEN data.composer ELSE <<>>

\* the variant of the check at line 329 that compares the field as it is
ComposerUnresolvedExact(composer) == composer \in {TextUnknown, <<>>}

\* line 329: composer.strip().lower() in ['unknown', '']
ComposerUnresolved(composer) == Lower(Strip(composer)) \in {TextUnknown, <<>>}

Raised(e) == [ok |-> FALSE, exc |-> e, val |-> NoPiece]

\* identify_piece_simple(extracted_text) with the reasoning service answering
\* resp: the PieceIdentification, or the exception raised
identify_piece_simple(resp) ==
    IF resp.kind = "raise" THEN Raised("Transport")
    ELSE IF resp.kind = "no_json" THEN Raised("Parse")
    ELSE LET d == resp.data
         IN  IF ComposerUnresolved(ComposerOf(d))
             THEN Raised("Composer")
             ELSE IF d.has # IdentKeys
                  THEN Raised("TypeError")
                  ELSE [ok |-> TRUE, exc |-> "",
                        val |-> PieceIdentification(d.title, d.composer,
                                    d.scene_movement, d.confidence, d.reasoning)]

SearchTerm(term, strategy) == [term |-> term, strategy |-> strategy]

\* the variant of the test on the scene that always adds the term
WithSceneAlways(piece, entry) == <<entry>>

\* lines 372 and 381: if piece_id.scene_movement: search_terms.append(...)
WithScene(piece, entry) == IF piece.scene_movement # <<>> THEN <<entry>> ELSE <<>>

\* create_simple_search_terms(piece_id, instrument)
create_simple_search_terms(piece, instrument) ==
    LET basic_search    == Spaced(Spaced(piece.title, piece.composer), instrument)
        ensemble_search == Spaced(piece.title, piece.composer)
    IN  <<SearchTerm(basic_search, "basic")>>
        \o WithScene(piece, SearchTerm(Spaced(basic_search, piece.scene_movement), "scene"))
        \o <<SearchTerm(ensemble_search, "ensemble")>>
        \o WithScene(piece, SearchTerm(Spaced(ensemble_search, piece.scene_movement),
                                       "ensemble_scene"))

----------------------------------------------------------------------------
(* Discovery: search results, metadata items, the merge *)

Digits == <<"0", "1", "2", "3", "4", "5", "6", "7", "8", "9">>

\* [A-Za-z0-9_-]
IsIdChar(c) ==
    \/ \E k \in 1..Len(UpperCase) : UpperCase[k] = c
    \/ \E k \in 1..Len(LowerCase) : LowerCase[k] = c
    \/ \E k \in 1..Len(Digits) : Digits[k] = c
    \/ c \in {"_", "-"}

\* the variant of the check that looks at the length only
validate_length_only(video_id) == Len(video_id) = VideoIdLen

\* validate_video_id(video_id)
validate_video_id(video_id) ==
    IF video_id = <<>> \/ Len(video_id) # VideoIdLen
    THEN FALSE
    ELSE \A k \in 1..Len(video_id) : IsIdChar(video_id[k])

\* one item of a search response; has_id: 'id' in item and 'videoId' in item['id']
SearchItem(has_id, videoId) == [has_id |-> has_id, videoId |-> videoId]

RECURSIVE ValidVideoIds(_)
\* lines 449-456: the identifiers of the items that pass validate_video_id
ValidVideoIds(items) ==
    IF items = <<>> THEN <<>>
    ELSE IF Head(items).has_id /\ validate_video_id(Head(items).videoId)
         THEN <<Head(items).videoId>> \o ValidVideoIds(Tail(items))
         ELSE ValidVideoIds(Tail(items))

\* one item of a metadata response: kind is "ok", "missing_key" (a KeyError in
\* parse_video_item) or "bad_count" (int() raises on viewCount or likeCount)
MetaItem(id, kind, views) == [id |-> id, kind |-> kind, views |-> views]

\* parse_video_item(item, strategy): the VideoResult, or nothing
parse_video_item(item, strategy) ==
    IF item.kind = "ok"
    THEN <<VideoResult(item.id, item.views, strategy)>>
    ELSE <<>>

RECURSIVE ParseItemsUntilFailure(_, _)
\* the variant of the loop that an item failing to parse ends
ParseItemsUntilFailure(items, strategy) ==
    IF items = <<>> \/ Head(items).kind # "ok" THEN <<>>
    ELSE <<VideoResult(Head(items).id, Head(items).views, strategy)>>
         \o ParseItemsUntilFailure(Tail(items), strategy)

RECURSIVE ParseItems(_, _)
\* lines 504-511: the items of a batch response that parse
ParseItems(items, strategy) ==
    IF items = <<>> THEN <<>>
    ELSE parse_video_item(Head(items), strategy) \o ParseItems(Tail(items), strategy)

\* an HTTP exchange: a transport failure, a status without a body, or 200 with items
Transport == [kind |-> "transport", status |-> 0, items |-> <<>>]

Status(code) == [kind |-> "status", status |-> code, items |-> <<>>]

Ok(items) == [kind |-> "ok", status |-> 200, items |-> items]

HasVideoId(vs, id) == \E i \in 1..Len(vs) : vs[i].video_id = id

\* the variant of the merge that keeps every video
MergeEveryVideo(all, vs) == all \o vs

RECURSIVE MergeVideos(_, _)
\* lines 395-397: a video enters all_videos unless its identifier is there already
MergeVideos(all, vs) ==
    IF vs = <<>> THEN all
    ELSE IF HasVideoId(all, Head(vs).video_id)
         THEN MergeVideos(all, Tail(vs))
         ELSE MergeVideos(Append(all, Head(vs)), Tail(vs))

\* batch_ids = video_ids[i:i + batch_size]
BatchIds(video_ids, i) == SubSeq(video_ids, i + 1, Min(i + BatchSize, Len(video_ids)))

----------------------------------------------------------------------------
(* Steps of the scan *)

\* the services called so far during the scan
NoCalls == {}

Called(service) == calls \cup {service}

\* no search response yet
NoSearch == [kind |-> "none", status |-> 0, items |-> <<>>, responded |-> FALSE]

\* no metadata response yet; key is the credential the request carried
NoDetails == [kind |-> "none", status |-> 0, items |-> <<>>, key |-> ""]

\* no thread is inside get_next_youtube_api_key, no duration is being parsed
NoThreads == [t \in 1..MaxThreads |-> [pc |-> "idle", at |-> 0, next |-> 0]]

NoDuration == [stage |-> "none", iso |-> <<>>, seconds |-> 0, text |-> <<>>]

NoInstrument == [stage |-> "none", given |-> <<>>, normalized |-> <<>>]

NoExtraction == [stage |-> "none", content |-> <<>>, payload |-> <<>>, outcome |-> "none"]

Aside ==
    /\ threads = NoThreads
    /\ completed = 0
    /\ duration_state = NoDuration
    /\ instrument_state = NoInstrument
    /\ extraction_state = NoExtraction

\* the locals of search_youtube_single and get_video_details before a strategy
FreshStrategy ==
    /\ attempt' = 0
    /\ api_key' = ""
    /\ valid_video_ids' = <<>>
    /\ batch_start' = 0
    /\ details_videos' = <<>>
    /\ single_index' = 0

\* the step taken is no exchange with the search or the metadata service
NoExchange ==
    /\ last_search' = NoSearch
    /\ last_details' = NoDetails

FreshScan ==
    /\ NoExchange
    /\ identification' = NoIdentification
    /\ piece_id' = NoPiece
    /\ search_terms' = <<>>
    /\ term_index' = 0
    /\ strategy_videos' = <<>>
    /\ all_videos' = <<>>
    /\ returned' = <<>>
    /\ FreshStrategy
    /\ videos' = <<>>
    /\ scoring' = NoScoring
    /\ ranked_videos' = <<>>
    /\ rank_path' = "none"

\* extracted_text before and after the OCR call returned
NoText == [assigned |-> FALSE, text |-> <<>>]

Extracted(text) == [assigned |-> TRUE, text |-> text]

\* the variant of the check at line 119 that only rejects the empty text
TextUnreadableWhenEmpty(text) == text = <<>>

\* line 119: not extracted_text or len(extracted_text.strip()) < 5
TextUnreadable(text) == text = <<>> \/ Len(Strip(text)) < MinTextLen

\* scan returns the error envelope
ReturnError(message) ==
    /\ result' = create_error_response(message)
    /\ pc' = "done"

\* the variant of a scan start that begins the rotation again at the first key
ScanResetsRotor ==
    /\ current_youtube_key_index' = 0
    /\ UNCHANGED key_log

\* lines 107-123: no statement of a scan start assigns the cursor of line 72
ScanKeepsRotor == UNCHANGED rotorVars

\* lines 109-123: a scan starts; the OCR service raises or returns ocr.text
StartScan(instrument, ocr) ==
    /\ pc \in {"idle", "done"}
    /\ FreshScan
    /\ UNCHANGED asideVars
    /\ validated_instrument' = validate_instrument(instrument)
    /\ calls' = {"ocr"}
    /\ ScanKeepsRotor
    /\ IF ocr.kind = "raise"
       THEN /\ extracted_text' = NoText
            /\ ReturnError(ScanFailed("OCR"))
       ELSE /\ extracted_text' = Extracted(ocr.text)
            /\ IF TextUnreadable(ocr.text)
               THEN ReturnError(NoReadableText)
               ELSE /\ pc' = "identify"
                    /\ result' = NoResult

\* the variant of the check at line 129 that nothing satisfies
NoLowConfidence(confidence) == FALSE

\* line 129: piece_id.confidence.lower() == 'low'
LowConfidence(confidence) == Lower(confidence) = TextLow

\* lines 125-134: the identification call and the checks on it
Identify(resp) ==
    /\ pc = "identify"
    /\ NoExchange
    /\ UNCHANGED asideVars
    /\ calls' = Called("identify")
    /\ identification' = resp
    /\ UNCHANGED <<validated_instrument, extracted_text, search_terms, searchVars,
                   attemptVars, detailsVars, rankVars, rotorVars>>
    /\ \E r \in {identify_piece_simple(resp)} :
           IF ~r.ok
           THEN /\ ReturnError(ScanFailed(r.exc))
                /\ UNCHANGED piece_id
           ELSE /\ piece_id' = r.val
                /\ IF LowConfidence(r.val.confidence)
                   THEN ReturnError(r.val.reasoning)
                   ELSE /\ pc' = "terms"
                        /\ UNCHANGED result

\* lines 136-142: the search terms, and the first turn of the strategy loop
CreateTerms ==
    /\ pc = "terms"
    /\ NoExchange
    /\ UNCHANGED asideVars
    /\ search_terms' = create_simple_search_terms(piece_id, validated_instrument)
    /\ term_index' = 1
    /\ pc' = "search"
    /\ UNCHANGED <<validated_instrument, extracted_text, identification, piece_id,
                   strategy_videos,
                   all_videos, returned, attemptVars, detailsVars, rankVars,
                   rotorVars, result, calls>>

\* the variant of line 144 that lets an empty list through
AnyVideos(merged) == FALSE

\* line 144: if not videos
NoVideos(merged) == merged = <<>>

\* the variant of the loop that a raising strategy ends
MoreStrategiesUnlessRaised(raised) == ~raised /\ term_index < Len(search_terms)

\* the variant of the loop that ends after its first turn
NoMoreStrategies(raised) == FALSE

\* lines 392-402: the except clause is inside the loop, which goes on to the
\* next term whether the strategy raised or not
MoreStrategies(raised) == term_index < Len(search_terms)

\* lines 392-405 and 144-149: the strategy at term_index ended, returning vs or
\* raising; the loop goes on, or discovery ends
EndStrategy(raised, vs) ==
    /\ FreshStrategy
    /\ returned' = Append(returned, [raised |-> raised, videos |-> vs])
    /\ strategy_videos' = IF raised THEN strategy_videos ELSE vs
    /\ \E merged \in {IF raised THEN all_videos ELSE MergeVideos(all_videos, vs)} :
           /\ all_videos' = merged
           /\ IF MoreStrategies(raised)
              THEN /\ term_index' = term_index + 1
                   /\ pc' = "search"
                   /\ UNCHANGED <<videos, result>>
              ELSE /\ UNCHANGED term_index
                   /\ videos' = merged
                   /\ IF NoVideos(merged)
                      THEN ReturnError(NoVideosFound)
                      ELSE /\ pc' = "rank"
                           /\ UNCHANGED result

\* the variant of the loop that makes one attempt more than there are keys
OneAttemptMore(made) == made < Len(YOUTUBE_API_KEYS)

\* line 427: for attempt in range(len(YOUTUBE_API_KEYS)); made attempts are over
MoreAttempts(made) == made < Len(YOUTUBE_API_KEYS) - 1

\* the variant in which the last attempt raises whatever went wrong
RaisesOnEveryFailure(resp) == TRUE

\* the variant in which the last attempt never raises
RaisesOnNoFailure(resp) == FALSE

\* lines 471-474: only a transport failure of the last attempt raises; after a
\* status other than 200 on the last attempt the loop ends and line 477 returns []
RaisesOnLastAttempt(resp) == resp.kind = "transport"

\* lines 427-477: one search request of search_youtube_single
SearchAttempt(resp) ==
    /\ pc = "search"
    /\ get_next_youtube_api_key
    /\ last_search' = [kind |-> resp.kind, status |-> resp.status, items |-> resp.items,
                        responded |-> \/ attempt > 0 /\ last_search.responded
                                      \/ resp.kind # "transport"]
    /\ last_details' = NoDetails
    /\ UNCHANGED asideVars
    /\ calls' = Called("search")
    /\ UNCHANGED <<scanVars, scoring, ranked_videos, rank_path>>
    /\ IF resp.kind = "ok"
       THEN \E valid \in {ValidVideoIds(resp.items)} :
                IF valid # <<>>
                THEN /\ pc' = "details"
                     /\ api_key' = KeyAt(current_youtube_key_index)
                     /\ valid_video_ids' = valid
                     /\ batch_start' = 0
                     /\ details_videos' = <<>>
                     /\ UNCHANGED <<attempt, single_index, searchVars, videos, result>>
                ELSE EndStrategy(FALSE, <<>>)
       ELSE IF MoreAttempts(attempt)
            THEN /\ attempt' = attempt + 1
                 /\ UNCHANGED <<pc, api_key, valid_video_ids, detailsVars, searchVars,
                                videos, result>>
            ELSE EndStrategy(RaisesOnLastAttempt(resp), <<>>)

\* lines 487-531: the batch at batch_start is done and left found in all_videos
NextBatch(found) ==
    IF batch_start + BatchSize < Len(valid_video_ids)
    THEN /\ batch_start' = batch_start + BatchSize
         /\ details_videos' = found
         /\ single_index' = 0
         /\ pc' = "details"
         /\ UNCHANGED <<attemptVars, searchVars, videos, result>>
    ELSE EndStrategy(FALSE, found)

\* lines 487-529: one batch request of get_video_details
DetailsBatch(resp) ==
    /\ pc = "details"
    /\ last_details' = [kind |-> resp.kind, status |-> resp.status, items |-> resp.items,
                        key |-> api_key]
    /\ last_search' = NoSearch
    /\ UNCHANGED asideVars
    /\ calls' = Called("details")
    /\ UNCHANGED <<scanVars, scoring, ranked_videos, rank_path, rotorVars>>
    /\ IF resp.kind = "ok"
       THEN NextBatch(details_videos
                      \o ParseItems(resp.items, search_terms[term_index].strategy))
       ELSE IF resp.kind = "status" /\ resp.status = 400
            THEN /\ pc' = "single"
                 /\ single_index' = 1
                 /\ UNCHANGED <<batch_start, details_videos, attemptVars, searchVars,
                                videos, result>>
            ELSE NextBatch(details_videos)

\* get_single_video_details(video_id, strategy, api_key): the list it returns
get_single_video_details(resp, strategy) ==
    IF resp.kind = "ok" /\ resp.items # <<>>
    THEN parse_video_item(resp.items[1], strategy)
    ELSE <<>>

\* lines 516-522: one individual request after a batch answered 400
DetailsSingle(resp) ==
    /\ pc = "single"
    /\ last_details' = [kind |-> resp.kind, status |-> resp.status, items |-> resp.items,
                        key |-> api_key]
    /\ last_search' = NoSearch
    /\ UNCHANGED asideVars
    /\ calls' = Called("details")
    /\ UNCHANGED <<scanVars, scoring, ranked_videos, rank_path, rotorVars>>
    /\ \E found \in {details_videos \o get_single_video_details(
                         resp, search_terms[term_index].strategy)} :
           IF single_index < Len(BatchIds(valid_video_ids, batch_start))
           THEN /\ single_index' = single_index + 1
                /\ details_videos' = found
                /\ UNCHANGED <<pc, batch_start, attemptVars, searchVars, videos, result>>
           ELSE NextBatch(found)

\* line 149: ranked_videos = self.rank_by_accuracy(videos, piece_id, instrument)
RankStep(resp) ==
    /\ pc = "rank"
    /\ NoExchange
    /\ UNCHANGED asideVars
    /\ \E r \in {rank_by_accuracy(videos, resp)} :
           /\ ranked_videos' = r.videos
           /\ rank_path' = r.path
           /\ videos' = r.mutated
    /\ scoring' = resp
    /\ calls' = Called("rank")
    /\ pc' = "select"
    /\ UNCHANGED <<scanVars, searchVars, attemptVars, detailsVars, rotorVars, result>>

\* lines 151-198: select, build the result, return
Select ==
    /\ pc = "select"
    /\ NoExchange
    /\ UNCHANGED asideVars
    /\ result' = SelectAndRespond(ranked_videos, piece_id)
    /\ pc' = "done"
    /\ UNCHANGED <<scanVars, searchVars, attemptVars, detailsVars, rankVars,
                   rotorVars, calls>>

----------------------------------------------------------------------------
(* Ranking scenarios: the candidates discovery hands over, and the answer of *)
(* the scoring service                                                      *)

AllKeys == ScoreFieldSet \cup {"video_id"}

\* <<title, composer, scene, duration, overall>> as the scorer may return them;
\* overall is the scorer's own figure
ProfileLow == <<4, 3, 8, 5, 5>>

ProfileMid == <<6, 6, 5, 7, 6>>

ProfileMidScene == <<6, 7, 8, 4, 6>>

ProfileHigh == <<9, 10, 5, 8, 9>>

ProfileLast == <<2, 1, 3, 2, 1>>

Profiles == {ProfileLow, ProfileMid, ProfileMidScene, ProfileHigh}

FullEntry(id, p) == ScoreEntry(AllKeys, id, p[1], p[2], p[3], p[4], p[5])

\* an entry that lacks the key f
MissingKey(id, p, f) == [FullEntry(id, p) EXCEPT !.has = AllKeys \ {f}]

\* an entry whose value under f is not a number
NonNumAt(id, p, f) == [FullEntry(id, p) EXCEPT ![f] = NonNum]

ScenarioIds(n) == {VideoIdOf(i) : i \in 1..n}

PoolProfiles == {ProfileLow, ProfileMidScene, ProfileHigh}

NonNumFields == {"title_match_score", "scene_match_score", "duration_match_score",
                 "overall_accuracy_score"}

EntryPool(n) ==
    {FullEntry(id, p) : id \in ScenarioIds(n) \cup {UnknownId}, p \in PoolProfiles}
    \cup {MissingKey(UnknownId, ProfileHigh, "video_id")}
    \cup {MissingKey(id, ProfileHigh, f) :
             id \in ScenarioIds(n),
             f \in {"composer_match_score", "overall_accuracy_score"}}
    \cup {NonNumAt(id, ProfileHigh, f) : id \in ScenarioIds(n), f \in NonNumFields}

SeqsUpTo(S, k) == UNION {[1..m -> S] : m \in 0..k}

WrapKinds == {"clean", "noise", "fence_json", "fence", "no_brackets", "reversed",
              "extra_bracket", "after_fence", "empty"}

\* the text of a response around the scored objects es
Wrap(w, es) ==
    CASE w = "clean"         -> <<Tok("lb")>> \o Objs(es) \o <<Tok("rb")>>
      [] w = "noise"         -> <<Tok("txt"), Tok("lb")>> \o Objs(es) \o <<Tok("rb"), Tok("txt")>>
      [] w = "fence_json"    -> <<Tok("txt"), Tok("fence_json"), Tok("lb")>> \o Objs(es)
                                \o <<Tok("rb"), Tok("fence"), Tok("txt")>>
      [] w = "fence"         -> <<Tok("fence"), Tok("lb")>> \o Objs(es) \o <<Tok("rb"), Tok("fence")>>
      [] w = "no_brackets"   -> <<Tok("txt")>> \o Objs(es)
      [] w = "reversed"      -> <<Tok("rb")>> \o Objs(es) \o <<Tok("lb")>>
      [] w = "extra_bracket" -> <<Tok("lb")>> \o Objs(es) \o <<Tok("rb"), Tok("txt"), Tok("rb")>>
      [] w = "after_fence"   -> <<Tok("fence_json"), Tok("txt"), Tok("fence"), Tok("lb")>>
                                \o Objs(es) \o <<Tok("rb")>>
      [] OTHER               -> <<>>

ViewCounts == {10, 20}

StrategyOf(i) == IF i % 2 = 1 THEN "basic" ELSE "ensemble"

\* n candidates as discovery merges them: distinct identifiers, zero scores
Candidates(n, views) ==
    [i \in 1..n |-> VideoResult(VideoIdOf(i), views[i], StrategyOf(i))]

RisingViews(n) == [i \in 1..n |-> 10 * i]

\* one entry per candidate, in candidate order
EntriesFor(n, profile) == [i \in 1..n |-> FullEntry(VideoIdOf(i), profile[i])]

\* what may follow the per-candidate entries of a long response
Tails(n) ==
    {<<>>,
     <<MissingKey(UnknownId, ProfileHigh, "video_id")>>,
     <<NonNumAt(VideoIdOf(n), ProfileLast, "scene_match_score")>>}

TextSolo == <<"S", "o", "l", "o">>

TextMessager == <<"M", "e", "s", "s", "a", "g", "e", "r">>

TextHigh == <<"h", "i", "g", "h">>

TextMedium == <<"m", "e", "d", "i", "u", "m">>

ScenarioPiece == PieceIdentification(TextSolo, TextMessager, <<>>, TextHigh, "clear title")

\* any views, and every way the response text can be wrapped or the call fail
ScenarioWrapped ==
    \E n \in 1..(SmallN + 1) : \E views \in [1..n -> ViewCounts] :
        /\ videos = Candidates(n, views)
        /\ scoring \in {ScoringRaises} \cup
               {ScoringContent(Wrap(w, EntriesFor(n, [i \in 1..n |-> ProfileHigh]))) :
                    w \in WrapKinds}

\* any short sequence of entries, well-formed or not
ScenarioEntries ==
    \E n \in 1..SmallN :
        /\ videos = Candidates(n, RisingViews(n))
        /\ scoring \in {ScoringContent(Wrap("clean", es)) :
                           es \in SeqsUpTo(EntryPool(n), MaxEntries)}

\* long candidate lists, every candidate scored
ScenarioLong ==
    \E n \in 1..MaxVideos : \E profile \in [1..n -> Profiles] : \E tail \in Tails(n) :
        /\ videos = Candidates(n, RisingViews(n))
        /\ scoring = ScoringContent(Wrap("clean", EntriesFor(n, profile) \o tail))

InitRank ==
    /\ pc = "rank"
    /\ current_youtube_key_index = 0
    /\ key_log = <<>>
    /\ validated_instrument = TextClarinet
    /\ extracted_text = Extracted(TextSolo \o <<" ">> \o TextMessager)
    /\ identification = IdentObject(IdentData(IdentKeys, TextSolo, TextMessager, <<>>,
                                              TextHigh, "clear title"))
    /\ piece_id = ScenarioPiece
    /\ search_terms = create_simple_search_terms(ScenarioPiece, TextClarinet)
    /\ term_index = 2
    /\ strategy_videos = <<>>
    /\ returned = <<>>
    /\ attempt = 0
    /\ api_key = ""
    /\ valid_video_ids = <<>>
    /\ batch_start = 0
    /\ details_videos = <<>>
    /\ single_index = 0
    /\ ranked_videos = <<>>
    /\ rank_path = "none"
    /\ result = NoResult
    /\ calls = {"ocr", "identify", "search", "details"}
    /\ last_search = NoSearch
    /\ last_details = NoDetails
    /\ Aside
    /\ (ScenarioWrapped \/ ScenarioEntries \/ ScenarioLong)
    /\ all_videos = videos

\* the scoring service answers what the scenario holds
RankScenario == RankStep(scoring)

NextRank == RankScenario \/ Select

SpecRank == InitRank /\ [][NextRank]_vars

----------------------------------------------------------------------------
(* The scan pipeline: what the caller sends and what the services answer *)

\* the instrument a caller sends: one of the allow-list, in capitals and padded
\* (the names a caller may send are those of InstrumentNames)
Instruments == {<<" ", "C", "L", "A", "R", "I", "N", "E", "T", " ">>}

OcrRaises == [kind |-> "raise", text |-> <<>>]

OcrText(text) == [kind |-> "text", text |-> text]

\* OCR texts: empty, blank, shorter than MinTextLen (as it is, or once trimmed),
\* exactly MinTextLen once trimmed
OcrAnswers ==
    {OcrRaises} \cup
    {OcrText(t) : t \in {<<>>,
                         <<" ", " ", " ", " ", " ", " ">>,
                         <<"S", "o", "l", "o">>,
                         <<" ", " ", "S", "o", "l", "o", " ", "\n">>,
                         <<" ", "S", "o", "l", "o", "s", " ">>}}

TextUnknownPadded == <<" ", "U", "n", "k", "n", "o", "w", "n", " ">>

TextLowCapital == <<"L", "o", "w">>

FullIdent(composer, scene, confidence) ==
    IdentObject(IdentData(IdentKeys, TextSolo, composer, scene, confidence, "engraved title"))

\* the identification object without the key k
IdentWithout(k, confidence) ==
    IdentObject(IdentData(IdentKeys \ {k}, TextSolo, TextMessager, <<>>, confidence,
                          "engraved title"))

IdentAnswers ==
    {IdentRaises, IdentNoJson,
     FullIdent(TextMessager, <<>>, TextHigh),
     FullIdent(TextMessager, TextClarinet, TextMedium),
     FullIdent(TextMessager, <<>>, TextLowCapital),
     FullIdent(TextMessager, TextClarinet, TextLow),
     FullIdent(TextUnknownPadded, <<>>, TextHigh),
     FullIdent(TextUnknown, TextClarinet, TextLow),
     FullIdent(<<" ">>, <<>>, TextMedium),
     IdentWithout("composer", TextHigh),
     IdentWithout("reasoning", TextHigh)}

\* identifiers that fail validate_video_id: too short, a character outside the class
ShortId == <<"a", "a", "a", "a", "a", "a", "a", "a", "a", "a">>

BadCharId == <<"a", "a", "a", "a", "a", "!", "a", "a", "a", "a", "a">>

Found(id) == SearchItem(TRUE, id)

\* the items of a search response no longer than a batch
ShortItemLists ==
    {<<>>,
     <<Found(VideoIdOf(1)), Found(VideoIdOf(1))>>,
     <<Found(VideoIdOf(2)), Found(VideoIdOf(1))>>,
     <<Found(ShortId), SearchItem(FALSE, <<>>), Found(VideoIdOf(2))>>,
     <<Found(BadCharId)>>}

\* a search response that needs a second batch of metadata
LongItemList == [i \in 1..(BatchSize + 1) |-> Found(VideoIdOf(i))]

\* the answers to the search request of the strategy at index
SearchAnswers(index) ==
    {Transport, Status(403), Status(429), Status(500)}
    \cup {Ok(items) : items \in ShortItemLists}
    \cup (IF index <= MaxLongStrategies THEN {Ok(LongItemList)} ELSE {})

\* the view count the metadata service reports during the strategy at index
ViewsDuring(index) == 10 * index

\* a metadata response with one well-formed item for each asked identifier
AllItems(ids, views) == [i \in 1..Len(ids) |-> MetaItem(ids[i], "ok", views)]

\* the answers to a batch request for ids; to a full batch also an item whose
\* identifier was not asked for
DetailsAnswers(ids, views) ==
    {Transport, Status(403), Ok(<<>>), Ok(AllItems(ids, views)),
     Ok(<<MetaItem(ids[1], "missing_key", views)>> \o Tail(AllItems(ids, views)))}
    \cup (IF Len(ids) = BatchSize THEN {Ok(<<MetaItem(ShortId, "ok", views)>>)} ELSE {})
    \cup (IF Len(ids) <= MaxSingleBatch THEN {Status(400)} ELSE {})

\* the answers to an individual request for id
SingleAnswers(id, views) ==
    {Transport, Status(404), Ok(<<>>),
     Ok(<<MetaItem(id, "ok", views)>>),
     Ok(<<MetaItem(id, "bad_count", views)>>)}

\* the answers of the scoring service about the candidates vs
ScoringAnswers(vs) ==
    {ScoringRaises,
     ScoringContent(Wrap("fence_json",
         [i \in 1..Len(vs) |-> FullEntry(vs[i].video_id,
                                         IF i = 1 THEN ProfileLow ELSE ProfileHigh)]))}

\* line 794: scanner = AccurateMusicScannerAPI(); lines 71-72
Init ==
    /\ pc = "idle"
    /\ current_youtube_key_index = 0
    /\ key_log = <<>>
    /\ validated_instrument = <<>>
    /\ extracted_text = NoText
    /\ identification = NoIdentification
    /\ piece_id = NoPiece
    /\ search_terms = <<>>
    /\ term_index = 0
    /\ strategy_videos = <<>>
    /\ all_videos = <<>>
    /\ returned = <<>>
    /\ attempt = 0
    /\ api_key = ""
    /\ valid_video_ids = <<>>
    /\ batch_start = 0
    /\ details_videos = <<>>
    /\ single_index = 0
    /\ videos = <<>>
    /\ scoring = NoScoring
    /\ ranked_videos = <<>>
    /\ rank_path = "none"
    /\ result = NoResult
    /\ calls = NoCalls
    /\ last_search = NoSearch
    /\ last_details = NoDetails
    /\ Aside

Scan == \E instrument \in Instruments, ocr \in OcrAnswers : StartScan(instrument, ocr)

IdentifyPiece == \E resp \in IdentAnswers : Identify(resp)

Search ==
    /\ pc = "search"
    /\ \E resp \in SearchAnswers(term_index) : SearchAttempt(resp)

Details ==
    /\ pc = "details"
    /\ \E resp \in DetailsAnswers(BatchIds(valid_video_ids, batch_start),
                                   ViewsDuring(term_index)) :
           DetailsBatch(resp)

Single ==
    /\ pc = "single"
    /\ \E resp \in SingleAnswers(BatchIds(valid_video_ids, batch_start)[single_index],
                                  ViewsDuring(term_index)) :
           DetailsSingle(resp)

Rank ==
    /\ pc = "rank"
    /\ \E resp \in ScoringAnswers(videos) : RankStep(resp)

Next ==
    \/ Scan
    \/ IdentifyPiece
    \/ CreateTerms
    \/ Search
    \/ Details
    \/ Single
    \/ Rank
    \/ Select

Spec == Init /\ [][Next]_vars

\* the answers to a search request that differ in where the scan goes next: no
\* answer, a refusal, no item, two items, and more items than a batch holds
LiveSearchAnswers(index) ==
    {Transport, Status(403), Ok(<<>>), Ok(<<Found(VideoIdOf(2)), Found(VideoIdOf(1))>>)}
    \cup (IF index <= MaxLongStrategies THEN {Ok(LongItemList)} ELSE {})

SearchLive ==
    /\ pc = "search"
    /\ \E resp \in LiveSearchAnswers(term_index) : SearchAttempt(resp)

NextLive ==
    \/ Scan
    \/ IdentifyPiece
    \/ CreateTerms
    \/ SearchLive
    \/ Details
    \/ Single
    \/ Rank
    \/ Select

\* a scan is under way
Scanning == pc \notin {"idle", "done"}

Positions == {"idle", "identify", "terms", "search", "details", "single", "rank",
              "select", "done"}

\* where a scan stands: the statement, the strategy, the attempt, the batch and
\* the identifier within it
ScanPlace == <<pc, term_index, attempt, batch_start, single_index>>

\* a scan under way takes a step to a place (to another one, as a step that
\* changes ScanPlace)
Proceeds ==
    /\ Scanning
    /\ pc' \in Positions
    /\ term_index' \in 0..4
    /\ attempt' \in 0..PoolSize
    /\ batch_start' \in {0, BatchSize}
    /\ single_index' \in 0..BatchSize

\* the scan is sequential code and every call it makes returns or fails: each
\* request carries a timeout (lines 234, 318, 442, 498, 544, 733), so a scan
\* under way does not stay at one place for ever
SpecLive == Init /\ [][NextLive]_vars /\ WF_ScanPlace(Proceeds)

----------------------------------------------------------------------------
(* Overlapping requests: lines 843-844 run scanner.scan_music_from_base64 on   *)
(* the thread of each request (app.run at line 1116 serves requests on        *)
(* threads), and every scan calls get_next_youtube_api_key on the one scanner *)
(* of line 794.  The method takes no lock: a thread may be suspended between  *)
(* its reads and its write of self.current_youtube_key_index.                 *)

ThreadIds == 1..MaxThreads

\* what a thread inside get_next_youtube_api_key leaves alone
scanState == <<pc, scanVars, searchVars, attemptVars, detailsVars, rankVars, result,
               calls, last_search, last_details, key_log, duration_state,
               instrument_state, extraction_state>>

InFlight == Cardinality({t \in ThreadIds : threads[t].pc # "idle"})

\* line 412: key = YOUTUBE_API_KEYS[self.current_youtube_key_index]
ReadKey(t) ==
    /\ threads[t].pc = "idle"
    /\ completed + InFlight < MaxRotorCalls
    /\ threads' = [threads EXCEPT ![t] = [pc |-> "key_read",
                                          at |-> current_youtube_key_index,
                                          next |-> 0]]
    /\ UNCHANGED <<current_youtube_key_index, completed, scanState>>

\* line 413, the right-hand side: (self.current_youtube_key_index + 1) % len(...)
LoadIndex(t) ==
    /\ threads[t].pc = "key_read"
    /\ threads' = [threads EXCEPT ![t].pc = "index_loaded",
                                  ![t].next = AdvanceKeyIndex(current_youtube_key_index)]
    /\ UNCHANGED <<current_youtube_key_index, completed, scanState>>

\* line 413, the assignment, and line 414: return key
StoreIndex(t) ==
    /\ threads[t].pc = "index_loaded"
    /\ current_youtube_key_index' = threads[t].next
    /\ threads' = [threads EXCEPT ![t] = [pc |-> "idle", at |-> 0, next |-> 0]]
    /\ completed' = completed + 1
    /\ UNCHANGED scanState

InitRotor == Init

NextRotor == \E t \in ThreadIds : ReadKey(t) \/ LoadIndex(t) \/ StoreIndex(t)

SpecRotor == InitRotor /\ [][NextRotor]_vars

----------------------------------------------------------------------------
(* Durations: parse_youtube_duration and format_duration.  A duration text is *)
(* a tuple of characters; isodate.parse_duration is the library's grammar     *)
(* P[nY][nM][nW][nD][T[nH][nM][nS]], which it raises on leaving.              *)

IsDigit(c) == \E k \in 1..Len(Digits) : Digits[k] = c

DigitValue(c) == (CHOOSE k \in 1..Len(Digits) : Digits[k] = c) - 1

RECURSIVE NumberEnd(_, _)
\* the first position from i on that holds no digit
NumberEnd(s, i) == IF i <= Len(s) /\ IsDigit(s[i]) THEN NumberEnd(s, i + 1) ELSE i

RECURSIVE NumberValue(_, _, _)
\* the number written at positions i..j-1
NumberValue(s, i, j) ==
    IF i >= j THEN 0 ELSE 10 * NumberValue(s, i, j - 1) + DigitValue(s[j - 1])

\* an optional component n<designator> at st.pos, worth unit seconds each
Component(s, st, designator, unit) ==
    LET j == NumberEnd(s, st.pos)
    IN  IF j > st.pos /\ j <= Len(s) /\ s[j] = designator
        THEN [pos |-> j + 1, seconds |-> st.seconds + unit * NumberValue(s, st.pos, j)]
        ELSE st

\* the components after the T, when there is one
TimePart(s, st) ==
    IF st.pos <= Len(s) /\ s[st.pos] = "T"
    THEN Component(s, Component(s, Component(s,
             [pos |-> st.pos + 1, seconds |-> st.seconds], "H", 3600), "M", 60), "S", 1)
    ELSE st

\* isodate.parse_duration(duration_iso).total_seconds(): years and months are
\* not part of the timedelta the seconds are taken from
isodate_parse_duration(s) ==
    IF Len(s) < 2 \/ s[1] # "P"
    THEN [ok |-> FALSE, seconds |-> 0]
    ELSE LET date == Component(s, Component(s, Component(s, Component(s,
                         [pos |-> 2, seconds |-> 0], "Y", 0), "M", 0), "W", 604800),
                         "D", 86400)
             end  == TimePart(s, date)
         IN  IF end.pos = Len(s) + 1
             THEN [ok |-> TRUE, seconds |-> end.seconds]
             ELSE [ok |-> FALSE, seconds |-> 0]

\* the variant without the except clause's value: a failure is reported as -1
parse_duration_or_minus_one(duration_iso) ==
    IF isodate_parse_duration(duration_iso).ok
    THEN isodate_parse_duration(duration_iso).seconds
    ELSE 0 - 1

\* parse_youtube_duration(duration_iso)
parse_youtube_duration(duration_iso) ==
    IF isodate_parse_duration(duration_iso).ok
    THEN isodate_parse_duration(duration_iso).seconds
    ELSE 0

RECURSIVE Decimal(_)
\* str(n) for n >= 0
Decimal(n) == IF n < 10 THEN <<Digits[n + 1]>> ELSE Decimal(n \div 10) \o <<Digits[(n % 10) + 1]>>

\* f"{n}" for any integer n
FormatInt(n) == IF n < 0 THEN <<"-">> \o Decimal(0 - n) ELSE Decimal(n)

\* the variant of the padding that writes the number as it is
Unpadded(n) == Decimal(n)

\* f"{n:02d}" for 0 <= n < 60
TwoDigits(n) == IF n < 10 THEN <<"0">> \o Decimal(n) ELSE Decimal(n)

\* format_duration(seconds); // and % floor, as \div and % do
format_duration(seconds) ==
    LET minutes           == seconds \div 60
        remaining_seconds == seconds % 60
    IN  IF minutes >= 60
        THEN FormatInt(minutes \div 60) \o <<":">> \o TwoDigits(minutes % 60)
             \o <<":">> \o TwoDigits(remaining_seconds)
        ELSE FormatInt(minutes) \o <<":">> \o TwoDigits(remaining_seconds)

\* the characters of the duration texts tried
IsoAlphabet == {"P", "T", "H", "M", "S", "1", "x"}

IsoTexts == UNION {[1..m -> IsoAlphabet] : m \in 0..MaxIsoLen}

\* the scan at rest: the state a pure function of the scanner is applied in
AtRest ==
    /\ pc = "idle"
    /\ current_youtube_key_index = 0
    /\ key_log = <<>>
    /\ validated_instrument = <<>>
    /\ extracted_text = NoText
    /\ identification = NoIdentification
    /\ piece_id = NoPiece
    /\ search_terms = <<>>
    /\ term_index = 0
    /\ strategy_videos = <<>>
    /\ all_videos = <<>>
    /\ returned = <<>>
    /\ attempt = 0
    /\ api_key = ""
    /\ valid_video_ids = <<>>
    /\ batch_start = 0
    /\ details_videos = <<>>
    /\ single_index = 0
    /\ videos = <<>>
    /\ scoring = NoScoring
    /\ ranked_videos = <<>>
    /\ rank_path = "none"
    /\ result = NoResult
    /\ calls = NoCalls
    /\ last_search = NoSearch
    /\ last_details = NoDetails
    /\ threads = NoThreads
    /\ completed = 0

\* what parsing and formatting a duration leaves alone
durationFrame == <<pc, scanVars, searchVars, attemptVars, detailsVars, rankVars,
                   rotorVars, result, calls, last_search, last_details, threadVars,
                   instrument_state, extraction_state>>

\* line 574: duration_iso = content_details['duration']
InitDuration ==
    /\ pc = "idle"
    /\ \E s \in IsoTexts :
           duration_state = [stage |-> "read", iso |-> s, seconds |-> 0, text |-> <<>>]
    /\ current_youtube_key_index = 0
    /\ key_log = <<>>
    /\ validated_instrument = <<>>
    /\ extracted_text = NoText
    /\ identification = NoIdentification
    /\ piece_id = NoPiece
    /\ search_terms = <<>>
    /\ term_index = 0
    /\ strategy_videos = <<>>
    /\ all_videos = <<>>
    /\ returned = <<>>
    /\ attempt = 0
    /\ api_key = ""
    /\ valid_video_ids = <<>>
    /\ batch_start = 0
    /\ details_videos = <<>>
    /\ single_index = 0
    /\ videos = <<>>
    /\ scoring = NoScoring
    /\ ranked_videos = <<>>
    /\ rank_path = "none"
    /\ result = NoResult
    /\ calls = NoCalls
    /\ last_search = NoSearch
    /\ last_details = NoDetails
    /\ threads = NoThreads
    /\ completed = 0
    /\ instrument_state = NoInstrument
    /\ extraction_state = NoExtraction

\* line 579: duration_seconds = self.parse_youtube_duration(duration_iso)
ParseDuration ==
    /\ duration_state.stage = "read"
    /\ duration_state' = [duration_state EXCEPT
           !.stage = "parsed",
           !.seconds = parse_youtube_duration(duration_state.iso)]
    /\ UNCHANGED durationFrame

\* line 580: duration_text = self.format_duration(duration_seconds)
FormatDuration ==
    /\ duration_state.stage = "parsed"
    /\ duration_state' = [duration_state EXCEPT
           !.stage = "formatted",
           !.text = format_duration(duration_state.seconds)]
    /\ UNCHANGED durationFrame

NextDuration == ParseDuration \/ FormatDuration

SpecDuration == InitDuration /\ [][NextDuration]_vars

\* the duration texts of a whole number of seconds: "PT0S", "PT1S", ...
SecondsTexts == {<<"P", "T">> \o Decimal(n) \o <<"S">> : n \in 0..MaxSeconds}

\* line 574 for a video whose duration is given in seconds
InitSeconds ==
    /\ AtRest
    /\ instrument_state = NoInstrument
    /\ extraction_state = NoExtraction
    /\ \E s \in SecondsTexts :
           duration_state = [stage |-> "read", iso |-> s, seconds |-> 0, text |-> <<>>]

SpecSeconds == InitSeconds /\ [][NextDuration]_vars

----------------------------------------------------------------------------
(* Instrument names: validate_instrument on the names a caller may send *)

\* the characters of the names tried: "oboe" is in the allow-list, "z" in none
\* of its entries
NameAlphabet == {" ", "o", "b", "e", "O", "z"}

InstrumentNames == UNION {[1..m -> NameAlphabet] : m \in 0..MaxNameLen}

\* what the normalization of an instrument name leaves alone
instrumentFrame == <<pc, scanVars, searchVars, attemptVars, detailsVars, rankVars,
                     rotorVars, result, calls, last_search, last_details, threadVars,
                     duration_state, extraction_state>>

\* line 107: scan_music_from_base64(image_base64, instrument)
InitInstrument ==
    /\ pc = "idle"
    /\ \E name \in InstrumentNames :
           instrument_state = [stage |-> "given", given |-> name, normalized |-> <<>>]
    /\ current_youtube_key_index = 0
    /\ key_log = <<>>
    /\ validated_instrument = <<>>
    /\ extracted_text = NoText
    /\ identification = NoIdentification
    /\ piece_id = NoPiece
    /\ search_terms = <<>>
    /\ term_index = 0
    /\ strategy_videos = <<>>
    /\ all_videos = <<>>
    /\ returned = <<>>
    /\ attempt = 0
    /\ api_key = ""
    /\ valid_video_ids = <<>>
    /\ batch_start = 0
    /\ details_videos = <<>>
    /\ single_index = 0
    /\ videos = <<>>
    /\ scoring = NoScoring
    /\ ranked_videos = <<>>
    /\ rank_path = "none"
    /\ result = NoResult
    /\ calls = NoCalls
    /\ last_search = NoSearch
    /\ last_details = NoDetails
    /\ threads = NoThreads
    /\ completed = 0
    /\ duration_state = NoDuration
    /\ extraction_state = NoExtraction

\* line 111: validated_instrument = self.validate_instrument(instrument)
NormalizeInstrument ==
    /\ instrument_state.stage = "given"
    /\ instrument_state' = [instrument_state EXCEPT
           !.stage = "normalized",
           !.normalized = validate_instrument(instrument_state.given)]
    /\ UNCHANGED instrumentFrame

NextInstrument == NormalizeInstrument

SpecInstrument == InitInstrument /\ [][NextInstrument]_vars

----------------------------------------------------------------------------
(* Object extraction: extract_json_from_content and the json.loads that     *)
(* follows it in identify_piece_simple.  A response text is a tuple of      *)
(* pieces: "lc" is a left brace, "rc" a right brace, "text" any run of      *)
(* other characters, "fence" three backticks, "fence_json" three backticks  *)
(* followed by the word json.  The strip of line 336 removes outer          *)
(* whitespace, which is a "text" piece or none.                             *)

\* the running count of lines 347-352 over content[from..to]
BraceCount(content, from, to) ==
    Cardinality({k \in from..to : content[k].t = "lc"})
        - Cardinality({k \in from..to : content[k].t = "rc"})

\* the index at which the loop of lines 348-355 breaks, 0 when it runs out
ClosingBrace(content, start) ==
    IF \E i \in start..Len(content) : BraceCount(content, start, i) = 0
    THEN CHOOSE i \in start..Len(content) :
             /\ BraceCount(content, start, i) = 0
             /\ \A j \in start..(i - 1) : BraceCount(content, start, j) # 0
    ELSE 0

\* extract_json_from_content: raises at line 345, else returns content[start:end],
\* where end is still start when the loop did not break
extract_json_from_content(content) ==
    LET c     == StripFence(content)
        start == FindFirst(c, {"lc"})
        end   == ClosingBrace(c, start)
    IN  IF start = 0
        THEN [ok |-> FALSE, val |-> <<>>]
        ELSE [ok |-> TRUE, val |-> IF end = 0 THEN <<>> ELSE SubSeq(c, start, end)]

\* lines 325-326: the extraction, then json.loads of what it returned.  The empty
\* string is no JSON document; whether a non-empty span decodes depends on the
\* characters the "text" pieces stand for
ExtractionOutcome(content, decodes) ==
    LET span == extract_json_from_content(content)
    IN  [stage   |-> "extracted",
         content |-> content,
         payload |-> span.val,
         outcome |-> IF ~span.ok THEN "NoObject"
                     ELSE IF span.val = <<>> \/ ~decodes THEN "Parse"
                     ELSE "decoded"]

ContentAlphabet == {Tok("lc"), Tok("rc"), Tok("text"), Tok("fence"), Tok("fence_json")}

ResponseTexts == UNION {[1..m -> ContentAlphabet] : m \in 0..MaxContentLen}

\* what extracting an object leaves alone
extractionFrame == <<pc, scanVars, searchVars, attemptVars, detailsVars, rankVars,
                     rotorVars, result, calls, last_search, last_details, threadVars,
                     duration_state, instrument_state>>

\* line 322: content = data['choices'][0]['message']['content']
InitExtraction ==
    /\ AtRest
    /\ duration_state = NoDuration
    /\ instrument_state = NoInstrument
    /\ \E content \in ResponseTexts :
           extraction_state = [NoExtraction EXCEPT !.stage = "read", !.content = content]

\* lines 325-326: json_str = self.extract_json_from_content(content);
\* identification_data = json.loads(json_str)
ExtractObject(decodes) ==
    /\ extraction_state.stage = "read"
    /\ extraction_state' = ExtractionOutcome(extraction_state.content, decodes)
    /\ UNCHANGED extractionFrame

NextExtraction == \E decodes \in BOOLEAN : ExtractObject(decodes)

SpecExtraction == InitExtraction /\ [][NextExtraction]_vars

----------------------------------------------------------------------------
(* Properties *)

ScanReturned == pc = "done"

Ranked == pc \in {"select", "done"}

IsErrorEnvelope(r) ==
    /\ r.videos = <<>>
    /\ r.piece_identification.confidence = TextLow

ZeroScores(v) == \A f \in ScoreFieldSet : v[f] = 0

NumericScores(v) == \A f \in ScoreFieldSet : v[f] # NonNum

\* a and b hold the same candidates (identifiers are unique in b)
SameCandidates(a, b) ==
    /\ Len(a) = Len(b)
    /\ \A i \in 1..Len(a) : \E j \in 1..Len(b) : a[i].video_id = b[j].video_id
    /\ \A j \in 1..Len(b) : \E i \in 1..Len(a) : a[i].video_id = b[j].video_id

DescendingByViews(vs) ==
    \A i, j \in 1..Len(vs) : i < j => vs[i].views >= vs[j].views

ScoringUnusable == scoring.kind = "raise" \/ ~ParsedScores(scoring).ok

Serialized(vs) == [i \in 1..Len(vs) |-> SerializeVideo(vs[i])]

\* C1: once discovery has produced a candidate, scan returns a success with a
\* non-empty video list whatever the scoring call does (a failed call, an
\* unparsable text, an entry lacking a key, a score that is not a number)
C1_ScoringNeverFailsScan ==
    (ScanReturned /\ videos # <<>>) =>
        /\ ~IsErrorEnvelope(result)
        /\ result.videos # <<>>
        /\ result.piece_identification = piece_id

\* C2: when the scoring call raises or its text holds no parsable JSON array,
\* rank_by_accuracy returns every input candidate, ordered by descending views,
\* each with its five scores still 0
C2_FallbackOnUnusableScoring ==
    (Ranked /\ ScoringUnusable) =>
        /\ rank_path = "fallback"
        /\ SameCandidates(ranked_videos, videos)
        /\ DescendingByViews(ranked_videos)
        /\ \A i \in 1..Len(ranked_videos) : ZeroScores(ranked_videos[i])

\* C2 witness: an unparsable text, and a fallback that had to reorder candidates
C2_Witness ==
    /\ ScanReturned
    /\ scoring.kind = "content"
    /\ ~ParsedScores(scoring).ok
    /\ Len(ranked_videos) >= 3
    /\ ranked_videos # videos
    /\ \E i \in 1..(Len(ranked_videos) - 1) :
           ranked_videos[i].views = ranked_videos[i + 1].views

\* C3: whenever rank_by_accuracy takes the views-based fallback, for any reason,
\* every returned candidate has its five scores at 0
C3_FallbackHasZeroScores ==
    (Ranked /\ rank_path = "fallback") =>
        \A i \in 1..Len(ranked_videos) : ZeroScores(ranked_videos[i])

\* C4: when at least 5 ranked candidates have overall >= 6 (all scores being
\* numbers), scan returns exactly 5 videos, all with overall >= 6: the 5 highest
\* of the high-accuracy candidates under (overall, scene) descending, in that order
C4_TopFiveHighAccuracy ==
    (/\ ScanReturned
     /\ \A i \in 1..Len(ranked_videos) : NumericScores(ranked_videos[i])
     /\ Len(HighAccuracyVideos(ranked_videos)) >= TopN) =>
        /\ Len(result.videos) = TopN
        /\ \A i \in 1..Len(result.videos) :
               result.videos[i].overall_accuracy_score >= HighAccuracy
        /\ result.videos =
               Serialized(Take(SortByAccuracy(HighAccuracyVideos(ranked_videos)), TopN))

\* C5: when fewer than 5 ranked candidates have overall >= 6, scan returns the
\* first min(5, n) entries of the ranked list, in ranked order
C5_TopFiveOfRanked ==
    (/\ ScanReturned
     /\ Len(HighAccuracyVideos(ranked_videos)) < TopN) =>
        /\ Len(result.videos) = Min(TopN, Len(ranked_videos))
        /\ result.videos = Serialized(Take(ranked_videos, TopN))

RECURSIVE Encountered(_, _)
\* the videos the strategies returned, in strategy order and in list order, each
\* with the label of the strategy that returned it
Encountered(rs, terms) ==
    IF rs = <<>> THEN <<>>
    ELSE [i \in 1..Len(Head(rs).videos) |->
             [video |-> Head(rs).videos[i], label |-> Head(terms).strategy]]
         \o Encountered(Tail(rs), Tail(terms))

\* position k of seen is the first one with its identifier
FirstEncounter(seen, k) ==
    \A j \in 1..(k - 1) : seen[j].video.video_id # seen[k].video.video_id

DiscoveryEnded == pc \in {"rank", "select", "done"} /\ Len(returned) = Len(search_terms)

\* C6: after all strategies have run, the merged candidates hold each video
\* identifier at most once, and the candidate kept for an identifier is the first
\* one the strategies returned, in strategy order, labelled with that strategy
C6_MergeKeepsFirstEncounter ==
    (DiscoveryEnded /\ returned # <<>>) =>
        LET seen == Encountered(returned, search_terms)
        IN  /\ \A i, j \in 1..Len(all_videos) :
                   i # j => all_videos[i].video_id # all_videos[j].video_id
            /\ \A k \in 1..Len(seen) : HasVideoId(all_videos, seen[k].video.video_id)
            /\ \A i \in 1..Len(all_videos) :
                   \E k \in 1..Len(seen) :
                       /\ FirstEncounter(seen, k)
                       /\ all_videos[i] = seen[k].video
                       /\ all_videos[i].search_strategy = seen[k].label

\* C6 witness: an identifier returned twice by one strategy and again by a later one
C6_Witness ==
    /\ DiscoveryEnded
    /\ \E a, b \in 1..Len(returned) :
           /\ a < b
           /\ Len(returned[a].videos) = 2
           /\ returned[a].videos[1].video_id = returned[a].videos[2].video_id
           /\ HasVideoId(returned[b].videos, returned[a].videos[1].video_id)
           /\ Len(returned[b].videos) = 2
    /\ Len(all_videos) = 2

\* C7: when the OCR text is shorter than 5 characters once trimmed (the empty
\* text included), scan returns the NoReadableText envelope and has called
\* neither the reasoning service, nor the search service, nor the ranking step
C7_ShortTextIsNoReadableText ==
    (/\ ScanReturned
     /\ extracted_text.assigned
     /\ Len(Strip(extracted_text.text)) < MinTextLen) =>
        /\ result = create_error_response(NoReadableText)
        /\ calls \cap {"identify", "search", "details", "rank"} = {}

\* C7 witness: a text of 5 characters or more that is too short once trimmed
C7_Witness ==
    /\ ScanReturned
    /\ extracted_text.assigned
    /\ Len(extracted_text.text) >= MinTextLen
    /\ Len(Strip(extracted_text.text)) \in 1..(MinTextLen - 1)
    /\ result = create_error_response(NoReadableText)

\* C8: when the composer of the identification response, trimmed and lower-cased,
\* is "unknown" or empty, whatever the stated confidence, scan returns the error
\* envelope of the composer failure and has issued no search
C8_UnknownComposerFailsScan ==
    (/\ ScanReturned
     /\ identification.kind = "data"
     /\ Lower(Strip(ComposerOf(identification.data))) \in {TextUnknown, <<>>}) =>
        /\ result = create_error_response(ScanFailed("Composer"))
        /\ calls \cap {"search", "details", "rank"} = {}

\* C8 witness: a padded, capitalised "Unknown" stated with high confidence
C8_Witness ==
    /\ ScanReturned
    /\ identification.kind = "data"
    /\ identification.data.has = IdentKeys
    /\ identification.data.composer = TextUnknownPadded
    /\ identification.data.confidence = TextHigh
    /\ IsErrorEnvelope(result)

StrategyLabels(terms) == [i \in 1..Len(terms) |-> terms[i].strategy]

\* C9: the strategies generated are exactly basic, ensemble when the scene of the
\* identified piece is empty and exactly basic, scene, ensemble, ensemble_scene
\* when it is not, in that order, also when two of the query texts are identical
C9_StrategyLabels ==
    search_terms # <<>> =>
        StrategyLabels(search_terms) =
            IF piece_id.scene_movement = <<>>
            THEN <<"basic", "ensemble">>
            ELSE <<"basic", "scene", "ensemble", "ensemble_scene">>

\* C9 witness: four strategies, two of them with the same query text
C9_Witness ==
    /\ Len(search_terms) = 4
    /\ search_terms[1].term = search_terms[4].term
    /\ pc = "search"

\* C10: a call of next() returns the credential at the cursor and advances the
\* cursor by one modulo the pool size; PoolSize successive calls, from any
\* cursor, return each credential once in pool order and restore the cursor
C10_RotationIsCyclic ==
    /\ current_youtube_key_index \in 0..(PoolSize - 1)
    /\ \A k \in 1..Len(key_log) :
           /\ key_log[k].key = YOUTUBE_API_KEYS[key_log[k].at + 1]
           /\ key_log[k].next = (key_log[k].at + 1) % PoolSize
           /\ k < Len(key_log) => key_log[k + 1].at = key_log[k].next
    /\ key_log # <<>> => current_youtube_key_index = key_log[Len(key_log)].next
    /\ Len(key_log) = PoolSize =>
           /\ current_youtube_key_index = key_log[1].at
           /\ \A k \in 1..PoolSize :
                  key_log[k].key = YOUTUBE_API_KEYS[((key_log[1].at + k - 1) % PoolSize) + 1]
           /\ \A i \in 1..PoolSize : \E k \in 1..PoolSize : key_log[k].key = YOUTUBE_API_KEYS[i]
           /\ \A j, k \in 1..PoolSize : j # k => key_log[j].key # key_log[k].key

\* C10 witness: PoolSize calls that started at a cursor other than 0 and wrapped
C10_Witness ==
    /\ Len(key_log) = PoolSize
    /\ key_log[1].at # 0
    /\ key_log[PoolSize].at < key_log[1].at
    /\ current_youtube_key_index = key_log[1].at

\* C11: when requests overlap inside next(), the read of the cursor and its
\* advance are one atomic step: once every call has completed the cursor is
\* (start + completed calls) mod PoolSize (the start is 0), and two calls in
\* progress at once never hold the credential of the same cursor position
C11_RotationIsAtomic ==
    /\ (\A t \in ThreadIds : threads[t].pc = "idle") =>
           current_youtube_key_index = completed % PoolSize
    /\ \A t, u \in ThreadIds :
           (t # u /\ threads[t].pc # "idle" /\ threads[u].pc # "idle") =>
               threads[t].at # threads[u].at

\* C12: a scan never resets the rotation cursor: only a call of next() changes
\* it, by one step, and the credential a call hands out is the one that follows
\* the credential handed out last, also when that was during an earlier scan
C12_CursorMovesOnlyInNext ==
    [][/\ pc \in {"idle", "done"} =>
              current_youtube_key_index' = current_youtube_key_index
       /\ current_youtube_key_index' # current_youtube_key_index =>
              /\ pc = "search"
              /\ current_youtube_key_index' = (current_youtube_key_index + 1) % PoolSize
       /\ (pc = "search" /\ key_log # <<>>) =>
              key_log'[Len(key_log')].key =
                  YOUTUBE_API_KEYS[((key_log[Len(key_log)].at + 1) % PoolSize) + 1]]_vars

\* C12 witness: the first search attempt of a later scan took the credential
\* after the one the previous scan was handed last, and it was not the first one
C12_Witness ==
    /\ pc = "search"
    /\ term_index = 1
    /\ attempt = 1
    /\ Len(key_log) >= 2
    /\ key_log[Len(key_log)].at # 0
    /\ key_log[Len(key_log)].at = key_log[Len(key_log) - 1].next

\* a success: between 1 and 5 videos, a confidence other than low
SuccessEnvelope(r) ==
    /\ Len(r.videos) \in 1..TopN
    /\ r.piece_identification.confidence # TextLow

\* an error: no video, confidence low, empty title, composer and scene, a reason
ErrorEnvelope(r) ==
    /\ r.videos = <<>>
    /\ r.piece_identification.confidence = TextLow
    /\ r.piece_identification.title = <<>>
    /\ r.piece_identification.composer = <<>>
    /\ r.piece_identification.scene_movement = <<>>
    /\ DOMAIN r.piece_identification =
           {"title", "composer", "scene_movement", "confidence", "reasoning"}

\* C13: every scan that returns, returns one of two envelopes: a success with 1
\* to 5 videos and a confidence other than low, or an error with no video,
\* confidence low, empty title, composer and scene, and a reason; so "no video
\* and confidence low" tells them apart
C13_TwoEnvelopes ==
    ScanReturned =>
        /\ SuccessEnvelope(result) \/ ErrorEnvelope(result)
        /\ ErrorEnvelope(result) <=>
               (result.videos = <<>> /\ result.piece_identification.confidence = TextLow)

\* C13 witness: a success that had more than 5 ranked candidates to choose from
C13_Witness ==
    /\ ScanReturned
    /\ Len(ranked_videos) > TopN
    /\ Len(result.videos) = TopN
    /\ SuccessEnvelope(result)

\* C14: when every strategy has run and the merged candidates are empty (each
\* strategy returned nothing or raised), scan returns the NoVideosFound envelope
\* and the ranking call was never issued
C14_NoVideosFound ==
    (/\ ScanReturned
     /\ search_terms # <<>>
     /\ Len(returned) = Len(search_terms)
     /\ all_videos = <<>>) =>
        /\ result = create_error_response(NoVideosFound)
        /\ "rank" \notin calls
        /\ scoring = NoScoring

\* C14 witness: one strategy raised, another returned no video, nothing was found
C14_Witness ==
    /\ ScanReturned
    /\ Len(returned) = Len(search_terms)
    /\ \E a, b \in 1..Len(returned) : returned[a].raised /\ ~returned[b].raised
    /\ all_videos = <<>>
    /\ result = create_error_response(NoVideosFound)

\* C15: when the identification states a low confidence, scan returns the error
\* envelope that carries the reasoning of the identification, generates no
\* strategy and issues no search and no ranking call
C15_LowConfidenceShortCircuits ==
    (/\ ScanReturned
     /\ piece_id # NoPiece
     /\ piece_id.confidence = TextLow) =>
        /\ result = create_error_response(piece_id.reasoning)
        /\ search_terms = <<>>
        /\ calls \cap {"search", "details", "rank"} = {}

\* C15 witness: a piece with a known composer and a scene, stated with low confidence
C15_Witness ==
    /\ ScanReturned
    /\ piece_id.confidence = TextLow
    /\ piece_id.composer = TextMessager
    /\ piece_id.scene_movement # <<>>
    /\ result.piece_identification.reasoning = piece_id.reasoning

Searching == pc \in {"search", "details", "single"}

\* C16: a strategy that failed (raised) does not end discovery: the strategies
\* run one after the other, each in its turn, every strategy has run when
\* discovery is over, and every video a strategy returned is among the merged
\* candidates
C16_FailedStrategyDoesNotAbort ==
    (\E k \in 1..Len(returned) : returned[k].raised) =>
        /\ Searching => (term_index = Len(returned) + 1 /\ term_index <= Len(search_terms))
        /\ ~Searching => Len(returned) = Len(search_terms)
        /\ \A k \in 1..Len(returned) : \A i \in 1..Len(returned[k].videos) :
               /\ returned[k].videos[i].search_strategy = search_terms[k].strategy
               /\ HasVideoId(all_videos, returned[k].videos[i].video_id)

\* C16 witness: the first strategy raised, a later one returned videos, and the
\* candidates went on to ranking
C16_Witness ==
    /\ pc = "rank"
    /\ returned[1].raised
    /\ \E k \in 2..Len(returned) : Len(returned[k].videos) = 2
    /\ Len(all_videos) >= 2

\* C17: for a duration text that is not an ISO-8601 duration, parsing gives 0
\* seconds and formatting that value gives "0:00"; no step raises
C17_MalformedDurationIsZero ==
    ~isodate_parse_duration(duration_state.iso).ok =>
        /\ duration_state.stage \in {"parsed", "formatted"} => duration_state.seconds = 0
        /\ duration_state.stage = "formatted" => duration_state.text = <<"0", ":", "0", "0">>

\* C17 witness: a text that starts like a duration and goes wrong, parsed and formatted
C17_Witness ==
    /\ duration_state.stage = "formatted"
    /\ Len(duration_state.iso) = 4
    /\ duration_state.iso[1] = "P"
    /\ duration_state.iso[2] = "T"
    /\ duration_state.iso[3] = "1"
    /\ ~isodate_parse_duration(duration_state.iso).ok
    /\ duration_state.text = <<"0", ":", "0", "0">>

\* the search step taken goes on to another attempt of the same strategy
Retried ==
    /\ pc' = "search"
    /\ term_index' = term_index
    /\ search_terms' = search_terms
    /\ attempt' = attempt + 1
    /\ returned' = returned

\* the step taken ends the strategy
StrategyEnds == Len(returned') = Len(returned) + 1

\* the step taken ends the strategy with no video and without raising
YieldsNothing ==
    /\ StrategyEnds
    /\ ~returned'[Len(returned')].raised
    /\ returned'[Len(returned')].videos = <<>>

QuotaClass(response) == response.kind = "status" /\ response.status \in {403, 429}

OtherStatus(response) == response.kind = "status" /\ response.status \notin {200, 403, 429}

\* C18: within a strategy, a search response with status 403 or 429 has the same
\* query retried with the credential that follows in the rotation; a strategy
\* makes at most PoolSize attempts, and a 403 or 429 on the last of them ends
\* the strategy with no video and without raising
C18_QuotaStatusRetries ==
    [][pc = "search" =>
           /\ attempt \in 0..(PoolSize - 1)
           /\ attempt > 0 =>
                  key_log'[Len(key_log')].key =
                      YOUTUBE_API_KEYS[key_log[Len(key_log)].next + 1]
           /\ QuotaClass(last_search') =>
                  IF attempt < PoolSize - 1 THEN Retried ELSE YieldsNothing]_vars

\* C18 witness: a strategy whose last attempt was answered 429 has ended with no
\* video, and the next strategy is about to search
C18_Witness ==
    /\ pc = "search"
    /\ attempt = 0
    /\ last_search.kind = "status"
    /\ last_search.status = 429
    /\ returned # <<>>
    /\ ~returned[Len(returned)].raised
    /\ returned[Len(returned)].videos = <<>>

\* C19: within a strategy, a search response with a status other than 200, 403
\* and 429 abandons the search of that strategy: there is no further attempt
\* with another credential and the strategy yields no video, without raising
C19_OtherStatusAbandons ==
    [][(pc = "search" /\ OtherStatus(last_search')) => YieldsNothing]_vars

\* C20: within a strategy, a transport failure before the last attempt has the
\* query retried, and the search of the strategy raises exactly when the last
\* (PoolSize-th) attempt fails at transport level
C20_RaisesOnLastTransportFailure ==
    [][/\ pc = "search" =>
              /\ (last_search'.kind = "transport" /\ attempt < PoolSize - 1) => Retried
              /\ (StrategyEnds /\ returned'[Len(returned')].raised) <=>
                     (last_search'.kind = "transport" /\ attempt = PoolSize - 1)
       /\ (pc \in {"details", "single"} /\ StrategyEnds) =>
              ~returned'[Len(returned')].raised]_vars

\* C20 witness: a strategy has raised after its last attempt failed at
\* transport level
C20_Witness ==
    /\ last_search.kind = "transport"
    /\ attempt = 0
    /\ returned # <<>>
    /\ returned[Len(returned)].raised
    /\ pc = "search"

\* C21: a strategy ends raising "All YouTube API keys failed" only if every
\* attempt of that strategy failed at transport level: a strategy in which some
\* attempt received an HTTP response does not raise
C21_RaisesOnlyWhenAllTransport ==
    [][(pc = "search" /\ StrategyEnds /\ returned'[Len(returned')].raised) =>
           ~last_search'.responded]_vars

ClientError(response) == response.kind = "status" /\ response.status \in 400..499

\* the videos the strategy at term_index holds once the step taken is over
FoundAfter == IF StrategyEnds THEN returned'[Len(returned')].videos ELSE details_videos'

\* the step taken is followed by the next batch of the strategy, when there is one
NextBatchFollows ==
    IF batch_start + BatchSize < Len(valid_video_ids)
    THEN /\ pc' = "details"
         /\ batch_start' = batch_start + BatchSize
         /\ valid_video_ids' = valid_video_ids
         /\ term_index' = term_index
    ELSE StrategyEnds /\ ~returned'[Len(returned')].raised

\* the video of a metadata item that has every field, with integer counts
WellFormed(item) == item.kind = "ok"

VideosOf(items, strategy) ==
    [k \in 1..Len(SelectSeq(items, WellFormed)) |->
        VideoResult(SelectSeq(items, WellFormed)[k].id,
                    SelectSeq(items, WellFormed)[k].views, strategy)]

\* C22: the valid identifiers are fetched in consecutive batches of at most 5;
\* when a batch request is answered with a client-error (4xx) status, each
\* identifier of the batch is fetched individually, an identifier whose
\* individual fetch fails is omitted, and the remaining batches are processed
C22_ClientErrorFetchesIndividually ==
    [][/\ pc = "details" =>
              /\ batch_start % BatchSize = 0
              /\ Len(BatchIds(valid_video_ids, batch_start)) \in 1..BatchSize
              /\ ClientError(last_details') =>
                     /\ pc' = "single"
                     /\ single_index' = 1
                     /\ batch_start' = batch_start
                     /\ details_videos' = details_videos
       /\ pc = "single" =>
              /\ FoundAfter = details_videos
                     \o (IF last_details'.kind = "ok"
                         THEN VideosOf(Take(last_details'.items, 1),
                                       search_terms[term_index].strategy)
                         ELSE <<>>)
              /\ IF single_index < Len(BatchIds(valid_video_ids, batch_start))
                 THEN pc' = "single" /\ single_index' = single_index + 1
                 ELSE NextBatchFollows]_vars

\* the letters, the digits, the hyphen and the underscore
IdAlphabet ==
    {UpperCase[j] : j \in 1..Len(UpperCase)} \cup {LowerCase[j] : j \in 1..Len(LowerCase)}
    \cup {Digits[j] : j \in 1..Len(Digits)} \cup {"-", "_"}

\* the identifier has exactly 11 characters, each of [A-Za-z0-9_-]
Conforming(id) ==
    /\ Len(id) = VideoIdLen
    /\ \A k \in 1..Len(id) : id[k] \in IdAlphabet

CarriesConforming(item) == item.has_id /\ Conforming(item.videoId)

ConformingIds(items) ==
    [k \in 1..Len(SelectSeq(items, CarriesConforming)) |->
        SelectSeq(items, CarriesConforming)[k].videoId]

\* C23: the identifiers of a search response that go on to the metadata fetch
\* are exactly those of 11 characters, each a letter, a digit, a hyphen or an
\* underscore, in the order of the response; the others are dropped, and a
\* response without a conforming identifier yields no video
C23_OnlyConformingIdsFetched ==
    [][(pc = "search" /\ last_search'.kind = "ok") =>
           IF ConformingIds(last_search'.items) = <<>>
           THEN YieldsNothing
           ELSE /\ pc' = "details"
                /\ batch_start' = 0
                /\ valid_video_ids' = ConformingIds(last_search'.items)]_vars

\* C23 witness: of three items, one too short and one without identifier, the
\* third alone goes on to the metadata fetch
C23_Witness ==
    /\ pc = "details"
    /\ last_search.kind = "ok"
    /\ Len(last_search.items) = 3
    /\ last_search.items[1].has_id
    /\ ~Conforming(last_search.items[1].videoId)
    /\ valid_video_ids = <<last_search.items[3].videoId>>

\* C24: a metadata item that fails to parse is omitted and every other item of
\* the batch is returned; a batch answered with a non-success status or failing
\* at transport level is omitted, the videos of the batches before it are kept
\* and the batches after it are still fetched
C24_FailuresAreLocal ==
    [][pc = "details" =>
           /\ last_details'.kind = "ok" =>
                  /\ FoundAfter = details_videos
                         \o VideosOf(last_details'.items, search_terms[term_index].strategy)
                  /\ NextBatchFollows
           /\ (last_details'.kind \in {"status", "transport"} /\ pc' # "single") =>
                  /\ FoundAfter = details_videos
                  /\ NextBatchFollows]_vars

\* C24 witness: the first of two items lacked a field, and the strategy ended
\* with the video of the second
C24_Witness ==
    /\ last_details.kind = "ok"
    /\ Len(last_details.items) = 2
    /\ last_details.items[1].kind = "missing_key"
    /\ returned # <<>>
    /\ Len(returned[Len(returned)].videos) = 1
    /\ returned[Len(returned)].videos[1].video_id = last_details.items[2].id

\* rank_by_accuracy returned from line 765
ScoringSucceeded == Ranked /\ rank_path = "scored"

\* the position of the last entry that names id, 0 when no entry does
LastNaming(entries, id) ==
    IF \E k \in 1..Len(entries) : entries[k].video_id = id
    THEN CHOOSE k \in 1..Len(entries) :
             /\ entries[k].video_id = id
             /\ \A j \in (k + 1)..Len(entries) : entries[j].video_id # id
    ELSE 0

\* v carries the five scores of the last entry that names it, or five zeros
CarriesScoresOf(v, entries) ==
    IF LastNaming(entries, v.video_id) = 0
    THEN ZeroScores(v)
    ELSE \A f \in ScoreFieldSet : v[f] = entries[LastNaming(entries, v.video_id)][f]

\* C25: when scoring succeeds, the ranked list holds each input candidate exactly
\* once and nothing else; a candidate that scored entries name carries the five
\* scores of the entry applied to it (the last that names it), a candidate that
\* no entry names keeps five zeros, and an entry naming no candidate adds nothing
C25_ScoresApplied ==
    ScoringSucceeded =>
        /\ Len(ranked_videos) = Len(all_videos)
        /\ \A i \in 1..Len(all_videos) :
               Cardinality({j \in 1..Len(ranked_videos) :
                               ranked_videos[j].video_id = all_videos[i].video_id}) = 1
        /\ \E entries \in {ParsedScores(scoring).val} :
               \A j \in 1..Len(ranked_videos) : CarriesScoresOf(ranked_videos[j], entries)

\* C25 witness: scoring succeeded with an entry that names no candidate, a
\* candidate that no entry names and a candidate that carries an entry's scores
C25_Witness ==
    /\ ScoringSucceeded
    /\ \E k \in 1..Len(ParsedScores(scoring).val) :
           \A j \in 1..Len(ranked_videos) :
               ranked_videos[j].video_id # ParsedScores(scoring).val[k].video_id
    /\ \E j \in 1..Len(ranked_videos) :
           LastNaming(ParsedScores(scoring).val, ranked_videos[j].video_id) = 0
    /\ \E j \in 1..Len(ranked_videos) :
           /\ LastNaming(ParsedScores(scoring).val, ranked_videos[j].video_id) # 0
           /\ ranked_videos[j].overall_accuracy_score > 0

\* (a.overall, a.sceneMatch) >= (b.overall, b.sceneMatch), lexicographically
KeyAtLeast(a, b) ==
    \/ a.overall_accuracy_score > b.overall_accuracy_score
    \/ /\ a.overall_accuracy_score = b.overall_accuracy_score
       /\ a.scene_match_score >= b.scene_match_score

\* C26: when scoring succeeds (all scores being numbers), every two adjacent
\* candidates a, b of the ranked list have (a.overall, a.scene) >= (b.overall,
\* b.scene) lexicographically
C26_RankedByOverallThenScene ==
    (ScoringSucceeded /\ \A i \in 1..Len(ranked_videos) : NumericScores(ranked_videos[i])) =>
        \A i \in 1..(Len(ranked_videos) - 1) :
            KeyAtLeast(ranked_videos[i], ranked_videos[i + 1])

\* C26 witness: two candidates of equal overall stand next to each other in the
\* ranked list, the one with the higher scene score first, and stood the other
\* way round in the input
C26_Witness ==
    /\ ScoringSucceeded
    /\ Len(ranked_videos) >= 3
    /\ \E i \in 1..(Len(ranked_videos) - 1) :
           /\ ranked_videos[i].overall_accuracy_score
                  = ranked_videos[i + 1].overall_accuracy_score
           /\ ranked_videos[i].scene_match_score > ranked_videos[i + 1].scene_match_score
           /\ \E m, n \in 1..Len(all_videos) :
                  /\ m < n
                  /\ all_videos[m].video_id = ranked_videos[i + 1].video_id
                  /\ all_videos[n].video_id = ranked_videos[i].video_id

\* v is the candidate c but for the five scores
SameButScores(v, c) == \A f \in (DOMAIN c) \ ScoreFieldSet : v[f] = c[f]

\* C27: a ranked candidate differs from the candidate discovery produced in
\* nothing but its five scores, a serialized video carries the fields and the
\* scores of its ranked candidate, and its overall score is the scorer's figure
\* (or the 0 it started with when the scorer gave none), never a recomputed one
C27_OnlyScoresChange ==
    /\ Ranked =>
           /\ \A j \in 1..Len(ranked_videos) :
                  \E i \in 1..Len(all_videos) : SameButScores(ranked_videos[j], all_videos[i])
           /\ Len(videos) = Len(all_videos)
           /\ \A i \in 1..Len(videos) : SameButScores(videos[i], all_videos[i])
    /\ (ScanReturned /\ result.videos # <<>>) =>
           \E entries \in {ParsedScores(scoring).val} :
               \A k \in 1..Len(result.videos) :
                   /\ \E i \in 1..Len(all_videos) :
                          /\ result.videos[k].id = all_videos[i].video_id
                          /\ result.videos[k].views = all_videos[i].views
                          /\ result.videos[k].search_strategy = all_videos[i].search_strategy
                   /\ \E j \in 1..Len(ranked_videos) :
                          /\ result.videos[k].id = ranked_videos[j].video_id
                          /\ \A f \in ScoreFieldSet :
                                 result.videos[k][f] = ranked_videos[j][f]
                   /\ \/ result.videos[k].overall_accuracy_score = 0
                      \/ \E e \in 1..Len(entries) :
                             /\ entries[e].video_id = result.videos[k].id
                             /\ entries[e].overall_accuracy_score
                                    = result.videos[k].overall_accuracy_score
                   /\ (/\ rank_path = "scored"
                       /\ LastNaming(entries, result.videos[k].id) # 0) =>
                              result.videos[k].overall_accuracy_score =
                                  entries[LastNaming(entries, result.videos[k].id)]
                                      .overall_accuracy_score

\* C27 witness: a scan returned a video whose overall score, the scorer's, is
\* not the mean of its four other scores
C27_Witness ==
    /\ ScanReturned
    /\ rank_path = "scored"
    /\ \E k \in 1..Len(result.videos) :
           /\ result.videos[k].overall_accuracy_score * 4
                  # result.videos[k].title_match_score
                    + result.videos[k].composer_match_score
                    + result.videos[k].scene_match_score
                    + result.videos[k].duration_match_score
           /\ result.videos[k].views > 0

\* the strategies before the one at term_index have finished, and no other
StrategiesBefore == Len(returned) = term_index - 1

\* C28: the calls of a scan are made one after another in a fixed order: the
\* identification call once, before any search; then the strategies in the order
\* of search_terms, the searches and metadata fetches of one strategy being over
\* before the first search of the next; then the ranking call, at most once and
\* only when the last strategy has finished
C28_CallsAreSequential ==
    [][/\ pc = "identify" => calls = {"ocr"}
       /\ pc \in {"search", "details", "single"} =>
              /\ "identify" \in calls
              /\ "rank" \notin calls
              /\ term_index \in 1..Len(search_terms)
              /\ StrategiesBefore
              /\ term_index' \in {term_index, term_index + 1}
              /\ term_index' = term_index + 1 => (StrategyEnds /\ pc' = "search")
              /\ pc' \in {"details", "single"} => (term_index' = term_index /\ ~StrategyEnds)
       /\ (pc = "search" /\ attempt = 0) => calls' \ calls \subseteq {"search"}
       /\ pc = "rank" =>
              /\ "rank" \notin calls
              /\ {"identify", "search"} \subseteq calls
              /\ Len(returned) = Len(search_terms)
              /\ pc' \notin {"search", "details", "single", "rank"}
       /\ "rank" \in calls' \ calls => pc = "rank"
       /\ "identify" \in calls' \ calls => pc = "identify"]_vars

\* C28 witness: the ranking call has been made after two strategies that both
\* searched and fetched metadata
C28_Witness ==
    /\ pc = "select"
    /\ calls = {"ocr", "identify", "search", "details", "rank"}
    /\ Len(returned) = Len(search_terms)
    /\ Len(returned) >= 2
    /\ \A k \in 1..Len(returned) : returned[k].videos # <<>>

InAllowList(name) == \E k \in 1..Len(SUPPORTED_INSTRUMENTS) : SUPPORTED_INSTRUMENTS[k] = name

\* the k-th entry of the allow-list contains the name or is contained in it
Related(name, k) ==
    \/ IsSubstring(name, SUPPORTED_INSTRUMENTS[k])
    \/ IsSubstring(SUPPORTED_INSTRUMENTS[k], name)

\* C29: a non-empty instrument name, once case-folded and trimmed, is normalized
\* to itself when the allow-list holds it; otherwise to the first entry of the
\* allow-list, in list order, that contains it or is contained in it; otherwise
\* to itself: every name is given a value
C29_InstrumentNormalization ==
    (instrument_state.stage = "normalized" /\ instrument_state.given # <<>>) =>
        IF InAllowList(Strip(Lower(instrument_state.given)))
        THEN instrument_state.normalized = Strip(Lower(instrument_state.given))
        ELSE IF \E k \in 1..Len(SUPPORTED_INSTRUMENTS) :
                    Related(Strip(Lower(instrument_state.given)), k)
             THEN \E k \in 1..Len(SUPPORTED_INSTRUMENTS) :
                      /\ Related(Strip(Lower(instrument_state.given)), k)
                      /\ \A j \in 1..(k - 1) : ~Related(Strip(Lower(instrument_state.given)), j)
                      /\ instrument_state.normalized = SUPPORTED_INSTRUMENTS[k]
             ELSE instrument_state.normalized = Strip(Lower(instrument_state.given))

\* C29 witness: a name that contains an entry of the allow-list without being
\* one is normalized to that entry
C29_Witness ==
    /\ instrument_state.stage = "normalized"
    /\ ~InAllowList(Strip(Lower(instrument_state.given)))
    /\ InAllowList(instrument_state.normalized)
    /\ IsSubstring(instrument_state.normalized, Strip(Lower(instrument_state.given)))
    /\ Lower(instrument_state.given) # instrument_state.given

\* C30: an instrument name that is absent, empty, or empty once trimmed
\* (whitespace only) is normalized to "clarinet"
C30_BlankInstrumentIsClarinet ==
    (instrument_state.stage = "normalized" /\ Strip(instrument_state.given) = <<>>) =>
        instrument_state.normalized = TextClarinet

\* the response text once a leading fenced block is unwrapped
Unfenced(content) ==
    IF content # <<>> /\ content[1].t \in {"fence", "fence_json"}
    THEN FencedBlock(content, 1)
    ELSE content

\* C31: for a response text containing a left brace, the extraction returns
\* exactly the span from the first left brace to the right brace at which the
\* running count of left minus right braces first returns to zero, and nothing
\* after it; when no such right brace exists, no payload is returned and the
\* identification fails with a parse failure
C31_BalancedBraceExtraction ==
    (/\ extraction_state.stage = "extracted"
     /\ FindFirst(Unfenced(extraction_state.content), {"lc"}) # 0) =>
        \E text \in {Unfenced(extraction_state.content)} :
            \E start \in {FindFirst(text, {"lc"})} :
                IF ClosingBrace(text, start) # 0
                THEN /\ extraction_state.outcome # "NoObject"
                     /\ extraction_state.payload =
                            SubSeq(text, start, ClosingBrace(text, start))
                ELSE /\ extraction_state.outcome \in {"Parse", "NoObject"}
                     /\ extraction_state.payload = <<>>

\* the fields of a text between its colons
ColonFields(text) ==
    LET colons == <<0>> \o SelectSeq([k \in 1..Len(text) |-> IF text[k] = ":" THEN k ELSE 0],
                                     LAMBDA k : k # 0) \o <<Len(text) + 1>>
    IN  [f \in 1..(Len(colons) - 1) |-> SubSeq(text, colons[f] + 1, colons[f + 1] - 1)]

RECURSIVE Displayed(_)
\* the number a field of decimal digits displays
Displayed(field) ==
    IF field = <<>> THEN 0
    ELSE 10 * Displayed(SubSeq(field, 1, Len(field) - 1))
         + (CHOOSE d \in 0..9 : Digits[d + 1] = field[Len(field)])

\* a field of decimal digits that starts with 0 only when it is "0"
PlainNumber(field) ==
    /\ field # <<>>
    /\ \A k \in 1..Len(field) : \E d \in 0..9 : Digits[d + 1] = field[k]
    /\ Len(field) > 1 => field[1] # "0"

\* a field of exactly two decimal digits
TwoDigitField(field) ==
    /\ Len(field) = 2
    /\ \A k \in 1..2 : \E d \in 0..9 : Digits[d + 1] = field[k]

\* C32: a duration of s >= 0 seconds is displayed as M:SS with M = s div 60 and
\* SS = s mod 60 in two digits when s < 3600, and as H:MM:SS with H = s div 3600,
\* MM = (s div 60) mod 60 and SS = s mod 60, two digits each, when s >= 3600;
\* the displayed parts recompose to s
C32_DurationDisplay ==
    (duration_state.stage = "formatted" /\ duration_state.seconds >= 0) =>
        \E s \in {duration_state.seconds} : \E f \in {ColonFields(duration_state.text)} :
            IF s < 3600
            THEN /\ Len(f) = 2
                 /\ PlainNumber(f[1]) /\ Displayed(f[1]) = s \div 60
                 /\ TwoDigitField(f[2]) /\ Displayed(f[2]) = s % 60
                 /\ 60 * Displayed(f[1]) + Displayed(f[2]) = s
            ELSE /\ Len(f) = 3
                 /\ PlainNumber(f[1]) /\ Displayed(f[1]) = s \div 3600
                 /\ TwoDigitField(f[2]) /\ Displayed(f[2]) = (s \div 60) % 60
                 /\ TwoDigitField(f[3]) /\ Displayed(f[3]) = s % 60
                 /\ 3600 * Displayed(f[1]) + 60 * Displayed(f[2]) + Displayed(f[3]) = s

\* C32 witness: a duration over an hour whose minutes and seconds both need the
\* padding is formatted
C32_Witness ==
    /\ duration_state.stage = "formatted"
    /\ duration_state.seconds = 3600 + 2 * 60 + 5
    /\ duration_state.text = <<"1", ":", "0", "2", ":", "0", "5">>

\* the overall scores of vs are numbers and none is above one before it
DescendingByOverall(vs) ==
    /\ \A i \in 1..Len(vs) : vs[i].overall_accuracy_score # NonNum
    /\ \A i, j \in 1..Len(vs) :
           i < j => vs[i].overall_accuracy_score >= vs[j].overall_accuracy_score

\* C33: when ranking returned from the scoring-succeeded path a list in
\* descending order of overall, or a list whose scores are all zero, the videos
\* scan returns are the first min(5, n) entries of the ranked list, whichever
\* branch of the selection is taken
C33_SelectionIsPrefix ==
    (/\ ScanReturned
     /\ \/ ScoringSucceeded /\ DescendingByOverall(ranked_videos)
        \/ \A i \in 1..Len(ranked_videos) : ZeroScores(ranked_videos[i])) =>
        /\ Len(result.videos) = Min(TopN, Len(ranked_videos))
        /\ result.videos = Serialized(Take(ranked_videos, TopN))

\* the step taken is a search attempt, a metadata request
SearchStep == last_search'.kind # "none"

DetailsStep == last_details'.kind # "none"

\* the last k calls of the rotor moved the cursor one place each, from where the
\* first of them found it to where it is after the step
AdvancedBy(k) ==
    /\ Len(key_log') >= k
    /\ \A n \in (Len(key_log') - k + 1)..Len(key_log') :
           /\ key_log'[n].next = (key_log'[n].at + 1) % Len(YOUTUBE_API_KEYS)
           /\ n < Len(key_log') => key_log'[n + 1].at = key_log'[n].next
    /\ current_youtube_key_index' = key_log'[Len(key_log')].next
    /\ current_youtube_key_index'
           = (key_log'[Len(key_log') - k + 1].at + k) % Len(YOUTUBE_API_KEYS)

\* C34: the cursor moves one place at every search attempt and at no other
\* step, so a strategy whose search succeeds at its k-th attempt has moved it k
\* places; every metadata request of the strategy, batch or individual, carries
\* the credential of that attempt; a failed metadata request moves no cursor,
\* changes no credential and is not followed by a request for the same batch
C34_CursorMovesPerSearchAttempt ==
    [][/\ SearchStep =>
              /\ current_youtube_key_index'
                     = (current_youtube_key_index + 1) % Len(YOUTUBE_API_KEYS)
              /\ pc' = "details" =>
                     /\ AdvancedBy(attempt + 1)
                     /\ api_key' = key_log'[Len(key_log')].key
                     /\ api_key' = YOUTUBE_API_KEYS[current_youtube_key_index + 1]
       /\ ~SearchStep => current_youtube_key_index' = current_youtube_key_index
       /\ DetailsStep =>
              /\ key_log # <<>>
              /\ last_details'.key = key_log[Len(key_log)].key
              /\ key_log' = key_log
              /\ pc' \in {"details", "single"} => api_key' = api_key
              /\ last_details'.kind # "ok" =>
                     ~(/\ pc' = "details"
                       /\ term_index' = term_index
                       /\ batch_start' = batch_start)
              /\ pc = "single" =>
                     ~(/\ pc' = "details"
                       /\ term_index' = term_index
                       /\ batch_start' = batch_start)]_vars

\* C34 witness: the search of a strategy succeeded at its second attempt, and a
\* metadata request that carried the credential of that attempt has failed
C34_Witness ==
    /\ pc \in {"details", "single"}
    /\ attempt = 1
    /\ last_details.kind \in {"transport", "status"}
    /\ last_details.key = api_key
    /\ key_log[Len(key_log)].key = api_key
    /\ key_log[Len(key_log)].next = current_youtube_key_index

\* C35: every candidate a strategy holds after a metadata request carries an
\* identifier that the search of the strategy returned and that passed the
\* format check (it is one of valid_video_ids), and is a well-formed
\* identifier of 11 characters: the metadata service introduces no other
C35_CandidatesWereRequested ==
    [][DetailsStep =>
           \A i \in 1..Len(FoundAfter) :
               /\ \E k \in 1..Len(valid_video_ids) :
                      valid_video_ids[k] = FoundAfter[i].video_id
               /\ Conforming(FoundAfter[i].video_id)]_vars

\* the place of the next metadata request among those of the strategy: the
\* batch, then the identifier within it (0 for the batch request itself)
DetailsPlace == IF pc = "single" THEN <<batch_start, single_index>> ELSE <<batch_start, 0>>

DetailsPlaceAfter ==
    IF pc' = "single" THEN <<batch_start', single_index'>> ELSE <<batch_start', 0>>

\* place a comes before place b
PlaceBefore(a, b) == a[1] < b[1] \/ (a[1] = b[1] /\ a[2] < b[2])

\* C36: every scan ends with a result, provided every call returns or fails.  A
\* scan makes the identification call at most once and the ranking call at most
\* once; its search requests are made at distinct places (strategy, attempt) of
\* at most 4 strategies and poolSize attempts; the metadata requests of a
\* strategy are made at distinct places (batch, identifier) of the identifiers
\* its search returned; no step goes back to an earlier place
C36_ScanTerminatesWithinBounds ==
    /\ [][/\ pc = "identify" => ("identify" \notin calls /\ pc' # "identify")
          /\ pc = "rank" => ("rank" \notin calls /\ pc' \in {"select", "done"})
          /\ pc = "search" =>
                 /\ Len(search_terms) <= 4
                 /\ term_index \in 1..Len(search_terms)
                 /\ attempt \in 0..(Len(YOUTUBE_API_KEYS) - 1)
                 /\ pc' = "search" =>
                        PlaceBefore(<<term_index, attempt>>, <<term_index', attempt'>>)
                 /\ pc' \in {"details", "single"} =>
                        (term_index' = term_index /\ attempt' = attempt)
                 /\ pc' \in {"search", "details", "rank", "done"}
          /\ pc \in {"details", "single"} =>
                 /\ valid_video_ids # <<>>
                 /\ batch_start % BatchSize = 0
                 /\ batch_start < Len(valid_video_ids)
                 /\ pc = "single" =>
                        single_index \in 1..Len(BatchIds(valid_video_ids, batch_start))
                 /\ pc' \in {"details", "single"} =>
                        /\ term_index' = term_index
                        /\ valid_video_ids' = valid_video_ids
                        /\ PlaceBefore(DetailsPlace, DetailsPlaceAfter)
                 /\ pc' = "search" => term_index' = term_index + 1
                 /\ pc' \in {"details", "single", "search", "rank", "done"}
          /\ pc \in {"select", "done"} => pc' \notin {"search", "details", "single", "rank"}
         ]_vars
    /\ Scanning ~> (ScanReturned /\ result # NoResult)

\* C36 witness: a scan has ended with a result after the identification call,
\* the last attempt of the last of four strategies, metadata requests for the
\* single identifiers of a batch, and the ranking call
C36_Witness ==
    /\ ScanReturned
    /\ result.videos # <<>>
    /\ Len(search_terms) = 4
    /\ Len(returned) = 4
    /\ returned[1].raised
    /\ calls = {"ocr", "identify", "search", "details", "rank"}

====
